---- MODULE Spec2Model ----
(***************************************************************************)
(* A model of marco's collaborative recipe workflow (src/src/marco):       *)
(* the RecipeState threaded through the LangGraph graph of graph.py, the   *)
(* ConversationManager of conversation.py, the RecipeIterator of           *)
(* recipe_iterator.py and the collaborative agent nodes.                   *)
(*                                                                         *)
(* Conventions.                                                            *)
(*  - Optional[T] is a sequence of length at most one: None is <<>> and a  *)
(*    present value x is <<x>>.                                            *)
(*  - Text that the code searches by substring (ingredient names, nutrient *)
(*    sources, keywords) is a sequence of one-character strings, so that   *)
(*    str.lower() and the "in" operator are computed, not assumed.         *)
(*  - A message's content is the canned template that produced it plus the *)
(*    texts interpolated into it.                                          *)
(*  - Anxiety scores are kept in tenths of a point (6.0 is 60).            *)
(***************************************************************************)
EXTENDS Integers, Sequences, FiniteSets, TLC

VARIABLES
    state,      \* the RecipeState (schemas.py:207-234)
    uuid,       \* number of uuid4 values drawn so far (conversation.py:76)
    pc,         \* the graph node to run next, "END", "aborted", or "api"
    visited,    \* the graph nodes executed so far, in order
    env,        \* what the run reads from outside: data files, the date
    lastOp,     \* the last ConversationManager call made by a direct caller
    retList,    \* the list the last direct call returned, or the one-element
                \* list of the value it returned (empty when it returned None)
    retBool     \* the value the last check_consensus returned

vars == <<state, uuid, pc, visited, env, lastOp, retList, retBool>>

-----------------------------------------------------------------------------
(* Bounds of the model.                                                    *)

\* Longest conversation log a direct caller of add_message builds.
MaxLog == 6
\* Longest log under which a direct caller exercises update_context.
MaxCtxLog == 2
\* Most entries a direct caller puts in decisions_made and pending_questions
\* together.
MaxCtxEntries == 2
\* Most filler messages in the log a direct caller of the RecipeIterator
\* passes.
MaxIterFill == 10
\* Most messages after the fillers in that log.
MaxIterTail == 1
\* Most calls of improve_recipe a direct caller makes on one state.
MaxImproves == 2
\* Most copies of one nutrient category in a scored database.
MaxCats == 4
\* Most food combinations in a scored database.
MaxCombos == 2
\* Most copies of one ingredient in a recipe searched for substitutions.
MaxSame == 2
\* Most rows of the recipes table.
MaxRows == 2

-----------------------------------------------------------------------------
(* Optional values and small helpers.                                      *)

None == <<>>
Some(x) == <<x>>

\* Python evaluates an argument, or the right-hand side of an assignment,
\* once: F is applied to the value of v.
ByValue(v, F(_)) == CHOOSE r \in {F(x) : x \in {v}} : TRUE
ByValue2(u, v, F(_, _)) == CHOOSE r \in {F(x, y) : x \in {u}, y \in {v}} : TRUE

Last(s) == ByValue(s, LAMBDA x : x[Len(x)])
\* s[-n:] of Python.
LastN(s, n) ==
    ByValue(s, LAMBDA x : IF Len(x) <= n THEN x ELSE SubSeq(x, Len(x) - n + 1, Len(x)))
\* s[:n] of Python.
FirstN(s, n) == ByValue(s, LAMBDA x : IF Len(x) <= n THEN x ELSE SubSeq(x, 1, n))
IsPrefix(s, t) ==
    ByValue2(s, t, LAMBDA x, y : Len(x) <= Len(y) /\ SubSeq(y, 1, Len(x)) = x)
RECURSIVE ConcatValue(_)
ConcatValue(ss) == IF ss = <<>> THEN <<>> ELSE Head(ss) \o ConcatValue(Tail(ss))
Concat(ss) == ByValue(ss, ConcatValue)
Count(s, P(_)) == ByValue(s, LAMBDA x : Cardinality({i \in DOMAIN x : P(x[i])}))

-----------------------------------------------------------------------------
(* Text.                                                                   *)

LowerChar(c) ==
    CASE c = "S" -> "s"
      [] c = "T" -> "t"
      [] c = "A" -> "a"
      [] c = "F" -> "f"
      [] OTHER -> c
\* str.lower()
Lower(s) == ByValue(s, LAMBDA x : [i \in DOMAIN x |-> LowerChar(x[i])])
\* Python's "a in b" on strings.
IsSubstring(a, b) ==
    ByValue2(a, b, LAMBDA x, y :
        \E i \in 0..(Len(y) - Len(x)) : SubSeq(y, i + 1, i + Len(x)) = x)

S_Salmon == <<"S", "a", "l", "m", "o", "n">>
S_spinach == <<"s", "p", "i", "n", "a", "c", "h">>
S_yogurt == <<"y", "o", "g", "u", "r", "t">>
S_Tomato == <<"T", "o", "m", "a", "t", "o">>
S_rice == <<"r", "i", "c", "e">>
S_turkey == <<"t", "u", "r", "k", "e", "y">>
S_chopped_walnuts == <<"c", "h", "o", "p", "p", "e", "d", " ", "w", "a", "l", "n", "u", "t", "s">>
S_chia_seeds == <<"c", "h", "i", "a", " ", "s", "e", "e", "d", "s">>
S_fresh_spinach == <<"f", "r", "e", "s", "h", " ", "s", "p", "i", "n", "a", "c", "h">>
S_chopped_kale == <<"c", "h", "o", "p", "p", "e", "d", " ", "k", "a", "l", "e">>
S_pumpkin_seeds == <<"p", "u", "m", "p", "k", "i", "n", " ", "s", "e", "e", "d", "s">>
S_avocado == <<"a", "v", "o", "c", "a", "d", "o">>
S_Fresh_Atlantic_Salmon_Fillet ==
    <<"F", "r", "e", "s", "h", " ", "A", "t", "l", "a", "n", "t", "i", "c", " ",
      "S", "a", "l", "m", "o", "n", " ", "F", "i", "l", "l", "e", "t">>
K_add == <<"a", "d", "d">>
K_walnut == <<"w", "a", "l", "n", "u", "t">>
K_chia == <<"c", "h", "i", "a">>
K_spinach == <<"s", "p", "i", "n", "a", "c", "h">>
K_kale == <<"k", "a", "l", "e">>
K_pumpkin_seed == <<"p", "u", "m", "p", "k", "i", "n", " ", "s", "e", "e", "d">>
K_avocado == <<"a", "v", "o", "c", "a", "d", "o">>
K_tomato == <<"t", "o", "m", "a", "t", "o">>
K_salmon == <<"s", "a", "l", "m", "o", "n">>
K_yogurt == <<"y", "o", "g", "u", "r", "t">>
K_turkey == <<"t", "u", "r", "k", "e", "y">>
K_cherry_tomato ==
    <<"c", "h", "e", "r", "r", "y", " ", "t", "o", "m", "a", "t", "o">>
K_cooking_techniques == <<"c", "o", "o", "k", "i", "n", "g", " ", "t", "e", "c", "h", "n", "i", "q", "u", "e", "s">>
K_maximize == <<"m", "a", "x", "i", "m", "i", "z", "e">>

-----------------------------------------------------------------------------
(* schemas.py: the closed enumerations.                                    *)

ExpertRole == {"nutritionist", "chef", "seasonal_expert", "psychonutritionist"}
MessageType == {"suggestion", "question", "opinion", "approval", "concern",
                "modification", "final_decision"}

-----------------------------------------------------------------------------
(* Message contents.  A content is [tpl, args]: the canned text and the    *)
(* texts interpolated into it.  TplHas lists, for every canned text of the *)
(* source, which of the searched keywords its lowercased text contains.    *)

Content(tpl, args) == [tpl |-> tpl, args |-> args]

TplHas(tpl, kw) ==
    CASE tpl = "concern_msg" ->
            kw \in {K_add, K_walnut, K_chia, K_pumpkin_seed}
      [] tpl = "iteration_msg" ->
            kw \in {K_add, K_walnut, K_spinach, K_avocado}
      [] tpl = "response_msg" ->
            kw \in {K_walnut, K_spinach, K_kale, K_pumpkin_seed}
      [] tpl = "chef_suggestion" ->
            kw \in {K_cooking_techniques, K_maximize}
      [] tpl = "technique_response" ->
            kw \in {K_add}
      [] tpl = "caller_add_kale" ->
            kw \in {K_add, K_kale}
      [] OTHER -> FALSE

\* kw in content.lower()
ContentHas(content, kw) ==
    ByValue(content, LAMBDA c :
        \/ TplHas(c.tpl, kw)
        \/ \E i \in DOMAIN c.args : IsSubstring(kw, Lower(c.args[i])))

-----------------------------------------------------------------------------
(* schemas.py: the initial RecipeState.  A "world" w = [s, u] pairs a      *)
(* RecipeState s with the number u of uuids drawn, so that the operators   *)
(* below can generate message ids.                                         *)

NoExperts == [r \in {} |-> [role |-> r, name |-> ""]]

InitialContext ==
    [topic |-> "Recipe Planning", phase |-> "planning",
     decisions_made |-> <<>>, pending_questions |-> <<>>,
     consensus_reached |-> FALSE]

InitialState(request) ==
    [request |-> request,
     recipe |-> None,
     seasonal_variation |-> None,
     experts |-> NoExperts,
     conversation |-> <<>>,
     conversation_context |-> InitialContext,
     messages |-> <<>>,
     errors |-> <<>>]

World(s, u) == [s |-> s, u |-> u]

\* No direct call of the ConversationManager has been made.
NoOp == [op |-> "none", expert |-> "", general |-> FALSE,
         topic |-> None, phase |-> None, decision |-> None, question |-> None]

-----------------------------------------------------------------------------
(* conversation.py: ConversationManager.                                   *)

ExpertName(r) ==
    CASE r = "psychonutritionist" -> "Dr. Maya Chen"
      [] r = "seasonal_expert" -> "Chef Marco Rossi"
      [] r = "chef" -> "Chef Isabella Laurent"

\* self.expert_profiles
ExpertProfiles ==
    [r \in {"psychonutritionist", "seasonal_expert", "chef"} |->
        [role |-> r, name |-> ExpertName(r)]]

\* A faulty initialize_experts: the chef's profile is left out.
InitializeExpertsWithoutChef(w) ==
    [w EXCEPT !.s.experts =
        [r \in {"psychonutritionist", "seasonal_expert"} |-> ExpertProfiles[r]]]

\* initialize_experts
InitializeExperts(w) == [w EXCEPT !.s.experts = ExpertProfiles]

\* str(uuid.uuid4()): a value no earlier call returned.
NewUuid(u) == u + 1

\* A faulty add_message: the new message overwrites the last one.
AddMessageOverwriting(w, from_expert, content, message_type, to_expert, reference_to) ==
    ByValue(w, LAMBDA v :
        LET message == [id |-> NewUuid(v.u), from_expert |-> from_expert,
                        to_expert |-> to_expert, message_type |-> message_type,
                        content |-> content, reference_to |-> reference_to]
            log == v.s.conversation
        IN [s |-> [v.s EXCEPT !.conversation =
                      IF log = <<>> THEN <<message>>
                      ELSE [log EXCEPT ![Len(log)] = message]],
            u |-> NewUuid(v.u)])

\* add_message
AddMessage(w, from_expert, content, message_type, to_expert, reference_to) ==
    ByValue(w, LAMBDA v :
        LET message == [id |-> NewUuid(v.u), from_expert |-> from_expert,
                        to_expert |-> to_expert, message_type |-> message_type,
                        content |-> content, reference_to |-> reference_to]
        IN [s |-> [v.s EXCEPT !.conversation = Append(@, message)],
            u |-> NewUuid(v.u)])

\* A faulty filter: the "from this expert" branch is missing.
RECURSIVE FilterWithoutFrom(_, _, _)
FilterWithoutFrom(log, expert, include_general) ==
    ByValue(log, LAMBDA l :
        IF l = <<>> THEN <<>>
        ELSE LET msg == Head(l)
                 rest == FilterWithoutFrom(Tail(l), expert, include_general)
             IN IF msg.to_expert = Some(expert) THEN <<msg>> \o rest
                ELSE IF include_general /\ msg.to_expert = None THEN <<msg>> \o rest
                ELSE rest)

\* The loop of get_conversation_for_expert over a log.
RECURSIVE FilterForExpert(_, _, _)
FilterForExpert(log, expert, include_general) ==
    ByValue(log, LAMBDA l :
        IF l = <<>> THEN <<>>
        ELSE LET msg == Head(l)
                 rest == FilterForExpert(Tail(l), expert, include_general)
             IN IF msg.to_expert = Some(expert) THEN <<msg>> \o rest
                ELSE IF msg.from_expert = expert THEN <<msg>> \o rest
                ELSE IF include_general /\ msg.to_expert = None THEN <<msg>> \o rest
                ELSE rest)

\* get_conversation_for_expert
GetConversationForExpert(s, expert, include_general) ==
    FilterForExpert(s.conversation, expert, include_general)

IsApproval(msg) == msg.message_type = "approval"
IsConcern(msg) == msg.message_type = "concern"

\* A faulty check_consensus: it counts over the whole log.
CheckConsensusWholeLog(s) ==
    Count(s.conversation, IsApproval) > Count(s.conversation, IsConcern)

\* check_consensus
CheckConsensus(s) ==
    ByValue(LastN(s.conversation, 5), LAMBDA recent_messages :
        LET approval_count == Count(recent_messages, IsApproval)
            concern_count == Count(recent_messages, IsConcern)
        IN approval_count > concern_count)

\* Python truthiness of an Optional[str] argument.
Truthy(o) == o # None /\ o[1] # ""

\* A faulty update_context: consensus_reached is only ever raised.
UpdateContextSticky(s, topic, phase, decision, question) ==
    ByValue(s, LAMBDA st :
        LET c0 == st.conversation_context
            c1 == IF Truthy(topic) THEN [c0 EXCEPT !.topic = topic[1]] ELSE c0
            c2 == IF Truthy(phase) THEN [c1 EXCEPT !.phase = phase[1]] ELSE c1
            c3 == IF Truthy(decision)
                  THEN [c2 EXCEPT !.decisions_made = Append(@, decision[1])] ELSE c2
            c4 == IF Truthy(question)
                  THEN [c3 EXCEPT !.pending_questions = Append(@, question[1])] ELSE c3
        IN [st EXCEPT !.conversation_context =
                [c4 EXCEPT !.consensus_reached = @ \/ CheckConsensus(st)]])

\* update_context
UpdateContext(s, topic, phase, decision, question) ==
    ByValue(s, LAMBDA st :
        LET c0 == st.conversation_context
            c1 == IF Truthy(topic) THEN [c0 EXCEPT !.topic = topic[1]] ELSE c0
            c2 == IF Truthy(phase) THEN [c1 EXCEPT !.phase = phase[1]] ELSE c1
            c3 == IF Truthy(decision)
                  THEN [c2 EXCEPT !.decisions_made = Append(@, decision[1])] ELSE c2
            c4 == IF Truthy(question)
                  THEN [c3 EXCEPT !.pending_questions = Append(@, question[1])] ELSE c3
        IN [st EXCEPT !.conversation_context =
                [c4 EXCEPT !.consensus_reached = CheckConsensus(st)]])

-----------------------------------------------------------------------------
(* The knowledge bases (data_dir/nutrients.json and                        *)
(* data_dir/seasonal_ingredients.json).  A file is missing, holds text     *)
(* json.load rejects, or holds a database.                                 *)

\* What load_nutrient_database returns when the file does not exist.
EmptyNutrientDb == [nutrients |-> <<>>, food_combinations |-> <<>>]

\* A nutrient database.  nutrients is the "nutrients" dict in iteration
\* order; a food combination is its "combination" text split on " + ".
NutrientDb1 ==
    [nutrients |-> <<
        [key |-> "omega3", name |-> <<"o", "m", "e", "g", "a">>,
         sources |-> <<K_salmon, K_walnut, K_chia>>,
         mechanism |-> Some(<<"m", "1">>), recommendation |-> Some(<<"r", "1">>)],
        [key |-> "magnesium", name |-> <<"m", "g">>,
         sources |-> <<K_spinach, K_avocado, K_kale, K_pumpkin_seed>>,
         mechanism |-> Some(<<"m", "2">>), recommendation |-> None],
        [key |-> "tryptophan", name |-> <<"t", "r", "p">>,
         sources |-> <<K_turkey, K_salmon>>,
         mechanism |-> None, recommendation |-> Some(<<"r", "3">>)],
        [key |-> "b_vitamins", name |-> <<"b", "6">>,
         sources |-> <<K_spinach, K_avocado, K_salmon>>,
         mechanism |-> Some(<<"m", "4">>), recommendation |-> Some(<<"r", "4">>)],
        [key |-> "probiotics", name |-> <<"p", "r", "o">>,
         sources |-> <<K_yogurt>>,
         mechanism |-> Some(<<"m", "5">>), recommendation |-> Some(<<"r", "5">>)]
     >>,
     food_combinations |-> << <<K_salmon, K_spinach>>, <<K_turkey, K_kale>> >>]

NutrientFiles ==
    {[status |-> "missing", db |-> EmptyNutrientDb],
     [status |-> "malformed", db |-> EmptyNutrientDb],
     [status |-> "ok", db |-> NutrientDb1]}

\* A faulty load_nutrient_database: a missing file raises.
LoadNutrientDatabaseStrict(file) ==
    CASE file.status = "ok" -> [raised |-> FALSE, db |-> file.db]
      [] OTHER -> [raised |-> TRUE, db |-> EmptyNutrientDb]

\* load_nutrient_database: the dict it returns, or the exception json.load
\* raises.
LoadNutrientDatabase(file) ==
    CASE file.status = "missing" -> [raised |-> FALSE, db |-> EmptyNutrientDb]
      [] file.status = "malformed" -> [raised |-> TRUE, db |-> EmptyNutrientDb]
      [] OTHER -> [raised |-> FALSE, db |-> file.db]

Seasons == {"winter", "spring", "summer", "fall"}

\* What load_seasonal_data returns when the file does not exist: "seasons"
\* maps no season to anything.
EmptySeasonalData == [seasons |-> [x \in Seasons |-> <<>>]]

\* The season -> ingredient names table of the collaborative path;
\* seasons.get(season, []) is seasons[season].
SeasonalData1 ==
    [seasons |-> [x \in Seasons |->
        CASE x = "winter" -> <<K_kale, K_spinach>>
          [] x = "summer" -> <<K_tomato>>
          [] OTHER -> <<>>]]

SeasonalFiles ==
    {[status |-> "missing", data |-> EmptySeasonalData],
     [status |-> "malformed", data |-> EmptySeasonalData],
     [status |-> "ok", data |-> SeasonalData1]}

\* load_seasonal_data
LoadSeasonalData(file) ==
    CASE file.status = "missing" -> [raised |-> FALSE, data |-> EmptySeasonalData]
      [] file.status = "malformed" -> [raised |-> TRUE, data |-> EmptySeasonalData]
      [] OTHER -> [raised |-> FALSE, data |-> file.data]

\* get_current_season: the season of datetime.now().
GetCurrentSeason(e) == e.today

-----------------------------------------------------------------------------
(* agents/psychonutrition_collaborative.py: the scoring engine.            *)

RECURSIVE SumValue(_)
SumValue(s) == IF s = <<>> THEN 0 ELSE Head(s) + SumValue(Tail(s))
\* sum(...)
Sum(s) == ByValue(s, SumValue)
Min(a, b) == ByValue2(a, b, LAMBDA x, y : IF x <= y THEN x ELSE y)

\* [ing.name.lower() for ing in recipe.ingredients]
IngredientNames(recipe) ==
    ByValue(recipe.ingredients, LAMBDA ings :
        [i \in DOMAIN ings |-> Lower(ings[i].name)])

LowerAll(texts) == ByValue(texts, LAMBDA x : [i \in DOMAIN x |-> Lower(x[i])])

\* any(source in ing for source in sources)
AnySourceIn(sources, ing) ==
    ByValue2(sources, ing, LAMBDA x, y : \E j \in DOMAIN x : IsSubstring(x[j], y))

\* len(matches) of calculate_anxiety_score for one nutrient.
MatchCount(nutrient_info, ingredient_names) ==
    ByValue2(LowerAll(nutrient_info.sources), ingredient_names, LAMBDA sources, names :
        Cardinality({i \in DOMAIN names : AnySourceIn(sources, names[i])}))

\* A nutrient's contribution: min(1.5, len(matches) * 0.5), in tenths.
NutrientPoints(nutrient_info, ingredient_names) ==
    Min(15, MatchCount(nutrient_info, ingredient_names) * 5)

\* A food combination's contribution.
ComboPoints(combo, ingredient_names) ==
    ByValue2(LowerAll(combo), ingredient_names, LAMBDA foods, names :
        IF Cardinality({k \in DOMAIN foods :
                \E i \in DOMAIN names : IsSubstring(foods[k], names[i])}) >= 2
        THEN 5 ELSE 0)

\* nutrients.get("probiotics", {}).get("sources", []), lowercased.
ProbioticSources(db) ==
    ByValue(db.nutrients, LAMBDA nutrients :
        Concat([i \in DOMAIN nutrients |->
                  IF nutrients[i].key = "probiotics"
                  THEN LowerAll(nutrients[i].sources) ELSE <<>>]))

\* A faulty collaborative bonus: 2.0.
ProbioticBonusDouble(db, ingredient_names) ==
    ByValue2(ProbioticSources(db), ingredient_names, LAMBDA sources, names :
        IF \E i \in DOMAIN names : AnySourceIn(sources, names[i])
        THEN 20 ELSE 0)

\* The collaborative path's probiotic bonus: 1.0.
ProbioticBonus(db, ingredient_names) ==
    ByValue2(ProbioticSources(db), ingredient_names, LAMBDA sources, names :
        IF \E i \in DOMAIN names : AnySourceIn(sources, names[i])
        THEN 10 ELSE 0)

\* A faulty collaborative score: the cap at 10 is missing.
CalculateAnxietyScoreUncapped(recipe, db) ==
    ByValue2(IngredientNames(recipe), db, LAMBDA names, d :
        Sum([i \in DOMAIN d.nutrients |-> NutrientPoints(d.nutrients[i], names)])
        + Sum([k \in DOMAIN d.food_combinations |->
                  ComboPoints(d.food_combinations[k], names)])
        + ProbioticBonus(d, names))

\* The basic path's probiotic bonus: 0.5 (psychonutrition.py:49-53).
BasicProbioticBonus(db, ingredient_names) ==
    ByValue2(ProbioticSources(db), ingredient_names, LAMBDA sources, names :
        IF \E i \in DOMAIN names : AnySourceIn(sources, names[i])
        THEN 5 ELSE 0)

\* A faulty basic score: a category counts 0.5 for every match, uncapped.
BasicScoreUncappedCategory(recipe, db) ==
    ByValue2(IngredientNames(recipe), db, LAMBDA names, d :
        Min(Sum([i \in DOMAIN d.nutrients |-> MatchCount(d.nutrients[i], names) * 5])
            + Sum([k \in DOMAIN d.food_combinations |->
                      ComboPoints(d.food_combinations[k], names)])
            + BasicProbioticBonus(d, names),
            100))

\* psychonutrition.py: calculate_anxiety_score (basic), in tenths of a point.
CalculateAnxietyScoreBasic(recipe, db) ==
    ByValue2(IngredientNames(recipe), db, LAMBDA names, d :
        Min(Sum([i \in DOMAIN d.nutrients |-> NutrientPoints(d.nutrients[i], names)])
            + Sum([k \in DOMAIN d.food_combinations |->
                      ComboPoints(d.food_combinations[k], names)])
            + BasicProbioticBonus(d, names),
            100))

\* A faulty collaborative score: a category with three or more matches
\* counts 0.5.
CalculateAnxietyScoreDroppingThird(recipe, db) ==
    ByValue2(IngredientNames(recipe), db, LAMBDA names, d :
        Min(Sum([i \in DOMAIN d.nutrients |->
                   IF MatchCount(d.nutrients[i], names) >= 3 THEN 5
                   ELSE MatchCount(d.nutrients[i], names) * 5])
            + Sum([k \in DOMAIN d.food_combinations |->
                      ComboPoints(d.food_combinations[k], names)])
            + ProbioticBonus(d, names),
            100))

\* calculate_anxiety_score (collaborative), in tenths of a point.
CalculateAnxietyScore(recipe, db) ==
    ByValue2(IngredientNames(recipe), db, LAMBDA names, d :
        Min(Sum([i \in DOMAIN d.nutrients |-> NutrientPoints(d.nutrients[i], names)])
            + Sum([k \in DOMAIN d.food_combinations |->
                      ComboPoints(d.food_combinations[k], names)])
            + ProbioticBonus(d, names),
            100))

\* Whether a nutrient category is present in the recipe
\* (psychonutrition_collaborative.py:145).
NutrientPresent(nutrient_info, ingredient_names) ==
    ByValue2(LowerAll(nutrient_info.sources), ingredient_names, LAMBDA sources, names :
        \E i \in DOMAIN names : AnySourceIn(sources, names[i]))

\* The lists the analysis loop collects, before truncation.
KeyNutrients(recipe, db) ==
    ByValue2(IngredientNames(recipe), db.nutrients, LAMBDA names, nutrients :
        Concat([i \in DOMAIN nutrients |->
                  IF NutrientPresent(nutrients[i], names)
                  THEN <<nutrients[i].name>> ELSE <<>>]))
Mechanisms(recipe, db) ==
    ByValue2(IngredientNames(recipe), db.nutrients, LAMBDA names, nutrients :
        Concat([i \in DOMAIN nutrients |->
                  IF NutrientPresent(nutrients[i], names)
                  THEN nutrients[i].mechanism ELSE <<>>]))
Recommendations(recipe, db) ==
    ByValue2(IngredientNames(recipe), db.nutrients, LAMBDA names, nutrients :
        Concat([i \in DOMAIN nutrients |->
                  IF NutrientPresent(nutrients[i], names)
                  THEN nutrients[i].recommendation ELSE <<>>]))

\* psychonutrition.py: identify_key_nutrients makes the same test as the
\* collaborative loop; generate_mechanisms keeps the anxiety_benefit of every
\* category whose name is one of the key nutrients.
GenerateMechanisms(key_nutrients, db) ==
    FirstN(Concat([i \in DOMAIN db.nutrients |->
                     IF \E k \in DOMAIN key_nutrients :
                           key_nutrients[k] = db.nutrients[i].name
                     THEN <<db.nutrients[i].anxiety_benefit>> ELSE <<>>]), 5)

\* psychonutrition.py: generate_recommendations; the score is in tenths.
GenerateRecommendations(recipe, anxiety_score, db) ==
    LET good == {<<"c", "h", "i", "c", "k", "e", "n">>, K_turkey, K_salmon,
                 <<"e", "g", "g", "s">>, <<"t", "o", "f", "u">>}
        has_good_protein ==
            \E i \in DOMAIN recipe.ingredients : Lower(recipe.ingredients[i].name) \in good
    IN FirstN(<<"Eat this meal mindfully">>
              \o (IF anxiety_score < 70
                  THEN <<"Consider adding fermented foods", "Pair with herbal tea">>
                  ELSE <<>>)
              \o <<"Maintain consistent meal times", "Stay hydrated">>
              \o (IF ~has_good_protein
                  THEN <<"Add a protein source rich in tryptophan">> ELSE <<>>),
              5)

\* The PsychonutritionAnalysis of the basic analyze_psychonutrition_node
\* (psychonutrition.py:133-154); round(score, 1) keeps a score in tenths.
\* The cautions field is left out, as in Analyze.
AnalyzeBasic(recipe, db) ==
    LET anxiety_score == CalculateAnxietyScoreBasic(recipe, db)
        key_nutrients == KeyNutrients(recipe, db)
    IN [anxiety_score |-> anxiety_score,
        key_nutrients |-> FirstN(key_nutrients, 5),
        mechanisms |-> GenerateMechanisms(key_nutrients, db),
        recommendations |-> GenerateRecommendations(recipe, anxiety_score, db)]

\* A faulty analysis: a recipe that carries an analysis keeps it.
AnalyzeKeepingOld(recipe, db) ==
    ByValue2(recipe, db, LAMBDA r, d :
        IF r.psychonutrition_analysis # None THEN r.psychonutrition_analysis[1]
        ELSE [anxiety_score |-> CalculateAnxietyScore(r, d),
              key_nutrients |-> FirstN(KeyNutrients(r, d), 5),
              mechanisms |-> FirstN(Mechanisms(r, d), 3),
              recommendations |-> FirstN(Recommendations(r, d), 3)])

\* A faulty analysis: the lists keep their last entries, not their first.
AnalyzeKeepingLast(recipe, db) ==
    ByValue2(recipe, db, LAMBDA r, d :
        [anxiety_score |-> CalculateAnxietyScore(r, d),
         key_nutrients |-> LastN(KeyNutrients(r, d), 5),
         mechanisms |-> LastN(Mechanisms(r, d), 3),
         recommendations |-> LastN(Recommendations(r, d), 3)])

\* The PsychonutritionAnalysis the node builds
\* (psychonutrition_collaborative.py:153-158).
Analyze(recipe, db) ==
    ByValue2(recipe, db, LAMBDA r, d :
        [anxiety_score |-> CalculateAnxietyScore(r, d),
         key_nutrients |-> FirstN(KeyNutrients(r, d), 5),
         mechanisms |-> FirstN(Mechanisms(r, d), 3),
         recommendations |-> FirstN(Recommendations(r, d), 3)])

-----------------------------------------------------------------------------
(* recipe_iterator.py: RecipeIterator.                                     *)

\* self.target_anxiety_score = 6.0, in tenths.
TargetAnxietyScore == 60

HasRecipe(s) == s.recipe # None
HasAnalysis(s) == HasRecipe(s) /\ s.recipe[1].psychonutrition_analysis # None
AnxietyScore(s) == s.recipe[1].psychonutrition_analysis[1].anxiety_score

\* A faulty should_iterate_recipe: a score of exactly 6.0 still iterates.
ShouldIterateRecipeInclusive(s) ==
    ByValue(s, LAMBDA st :
        IF ~HasAnalysis(st) THEN FALSE
        ELSE IF AnxietyScore(st) <= TargetAnxietyScore THEN TRUE
        ELSE Count(LastN(st.conversation, 5), IsConcern) > 0)

\* should_iterate_recipe
ShouldIterateRecipe(s) ==
    ByValue(s, LAMBDA st :
        IF ~HasAnalysis(st) THEN FALSE
        ELSE IF AnxietyScore(st) < TargetAnxietyScore THEN TRUE
        ELSE Count(LastN(st.conversation, 5), IsConcern) > 0)

\* The keywords get_improvement_suggestions looks for, in the order of its
\* tests, and the suggestion each one yields.
SuggestionKeywords == <<K_walnut, K_chia, K_spinach, K_kale, K_pumpkin_seed>>
SuggestionFor(kw) ==
    CASE kw = K_walnut -> "Add walnuts for omega-3 and magnesium"
      [] kw = K_chia -> "Add chia seeds for omega-3 and fiber"
      [] kw = K_spinach -> "Add spinach for magnesium and folate"
      [] kw = K_kale -> "Add kale for magnesium and antioxidants"
      [] kw = K_pumpkin_seed -> "Add pumpkin seeds for magnesium and zinc"

DefaultSuggestions ==
    <<"Add walnuts for omega-3 fatty acids and magnesium",
      "Include spinach or kale for magnesium and B vitamins",
      "Add avocado for healthy fats and magnesium">>

\* The suggestions one message contributes (recipe_iterator.py:45-61).
MessageSuggestions(msg) ==
    ByValue(msg.content, LAMBDA content :
        IF /\ ContentHas(content, K_add)
           /\ \E k \in DOMAIN SuggestionKeywords :
                 ContentHas(content, SuggestionKeywords[k])
        THEN Concat([k \in DOMAIN SuggestionKeywords |->
                        IF ContentHas(content, SuggestionKeywords[k])
                        THEN <<SuggestionFor(SuggestionKeywords[k])>> ELSE <<>>])
        ELSE <<>>)

\* get_improvement_suggestions
GetImprovementSuggestions(s) ==
    ByValue2(s, LastN(s.conversation, 10), LAMBDA st, recent :
        ByValue(Concat([i \in DOMAIN recent |-> MessageSuggestions(recent[i])]),
                LAMBDA found :
            FirstN(IF found = <<>> /\ AnxietyScore(st) < 50
                   THEN DefaultSuggestions ELSE found, 3)))

\* keyword in suggestion.lower(), for the suggestion texts above.
SuggestionHas(suggestion, kw) ==
    CASE suggestion = "Add walnuts for omega-3 and magnesium" -> kw = K_walnut
      [] suggestion = "Add chia seeds for omega-3 and fiber" -> kw = K_chia
      [] suggestion = "Add spinach for magnesium and folate" -> kw = K_spinach
      [] suggestion = "Add kale for magnesium and antioxidants" -> kw = K_kale
      [] suggestion = "Add pumpkin seeds for magnesium and zinc" -> kw = K_pumpkin_seed
      [] suggestion = "Add walnuts for omega-3 fatty acids and magnesium" -> kw = K_walnut
      [] suggestion = "Include spinach or kale for magnesium and B vitamins" ->
            kw \in {K_spinach, K_kale}
      [] suggestion = "Add avocado for healthy fats and magnesium" -> kw = K_avocado
      [] OTHER -> FALSE

Ingredient(name, quantity, unit) == [name |-> name, quantity |-> quantity, unit |-> unit]

\* The keywords improve_recipe tests on each suggestion, in the order of its
\* tests, and the Ingredient fixed for each (quantities in hundredths).
BoostKeywords == <<K_walnut, K_chia, K_spinach, K_kale, K_pumpkin_seed, K_avocado>>
BoostFor(kw) ==
    CASE kw = K_walnut -> Ingredient(S_chopped_walnuts, 25, "cup")
      [] kw = K_chia -> Ingredient(S_chia_seeds, 100, "tbsp")
      [] kw = K_spinach -> Ingredient(S_fresh_spinach, 200, "cups")
      [] kw = K_kale -> Ingredient(S_chopped_kale, 100, "cup")
      [] kw = K_pumpkin_seed -> Ingredient(S_pumpkin_seeds, 200, "tbsp")
      [] kw = K_avocado -> Ingredient(S_avocado, 100, "whole")

DefaultBoost ==
    <<Ingredient(S_chopped_walnuts, 25, "cup"),
      Ingredient(S_fresh_spinach, 200, "cups"),
      Ingredient(S_avocado, 100, "whole")>>

\* The ingredients one suggestion yields (recipe_iterator.py:87-104).
SuggestionBoost(suggestion) ==
    Concat([k \in DOMAIN BoostKeywords |->
              IF SuggestionHas(suggestion, BoostKeywords[k])
              THEN <<BoostFor(BoostKeywords[k])>> ELSE <<>>])

\* A faulty improve_recipe: the suggestions are ignored and the default
\* ingredients are always taken.
AnxietyBoostingIngredientsAlwaysDefault(suggestions) == DefaultBoost

\* anxiety_boosting_ingredients of improve_recipe.
AnxietyBoostingIngredients(suggestions) ==
    ByValue(suggestions, LAMBDA sg :
        ByValue(Concat([i \in DOMAIN sg |-> SuggestionBoost(sg[i])]), LAMBDA found :
            IF found = <<>> THEN DefaultBoost ELSE found))

\* enhanced_instructions: the fixed eight steps.
EnhancedInstructions ==
    <<"Season salmon fillets with salt and pepper",
      "Heat olive oil in a large pan over medium heat",
      "Add fresh spinach to the pan and saute until wilted (2-3 minutes)",
      "Add chopped walnuts to the spinach and cook for 1 minute to release oils",
      "Grill or pan-sear salmon fillets for 4-5 minutes per side until cooked through",
      "Slice the avocado and arrange alongside the salmon",
      "Serve salmon over the nutrient-rich spinach-walnut mixture with fresh avocado slices",
      "Drizzle with extra olive oil and a squeeze of lemon for enhanced mineral absorption">>

\* A text built from a template: the recipe name and description.
Text(tpl, args) == [tpl |-> tpl, args |-> args]

\* A faulty improve_recipe: the new ingredients replace the old ones.
ImproveRecipeReplacing(w) ==
    ByValue(w, LAMBDA v :
        IF ~ShouldIterateRecipe(v.s) THEN v
        ELSE
          ByValue(AnxietyBoostingIngredients(GetImprovementSuggestions(v.s)), LAMBDA boost :
            AddMessage([v EXCEPT !.s.recipe[1].ingredients = boost,
                                 !.s.recipe[1].instructions = EnhancedInstructions],
                       "psychonutritionist",
                       Content("iteration_msg", [i \in DOMAIN boost |-> boost[i].name]),
                       "modification", None, None)))

\* A faulty improve_recipe: a recipe that was enhanced before is left alone.
ImproveRecipeIdempotent(w) ==
    ByValue(w, LAMBDA v :
        IF ~ShouldIterateRecipe(v.s) THEN v
        ELSE IF v.s.recipe[1].name.tpl = "Enhanced {} with Anxiety-Reducing Superfoods"
        THEN v
        ELSE
          ByValue(AnxietyBoostingIngredients(GetImprovementSuggestions(v.s)), LAMBDA boost :
            LET r0 == v.s.recipe[1]
                r1 == [r0 EXCEPT
                         !.ingredients = @ \o boost,
                         !.name = Text("Enhanced {} with Anxiety-Reducing Superfoods",
                                       <<r0.name>>),
                         !.description = Text("{} Enhanced with proven anxiety-reducing nutrients",
                                              <<r0.description>>),
                         !.instructions = EnhancedInstructions]
                w1 == [v EXCEPT !.s.recipe = Some(r1)]
            IN AddMessage(w1, "psychonutritionist",
                          Content("iteration_msg", [i \in DOMAIN boost |-> boost[i].name]),
                          "modification", None, None)))

\* improve_recipe
ImproveRecipe(w) ==
    ByValue(w, LAMBDA v :
        IF ~ShouldIterateRecipe(v.s) THEN v
        ELSE
          ByValue(AnxietyBoostingIngredients(GetImprovementSuggestions(v.s)), LAMBDA boost :
            LET r0 == v.s.recipe[1]
                r1 == [r0 EXCEPT
                         !.ingredients = @ \o boost,
                         !.name = Text("Enhanced {} with Anxiety-Reducing Superfoods",
                                       <<r0.name>>),
                         !.description = Text("{} Enhanced with proven anxiety-reducing nutrients",
                                              <<r0.description>>),
                         !.instructions = EnhancedInstructions]
                w1 == [v EXCEPT !.s.recipe = Some(r1)]
            IN AddMessage(w1, "psychonutritionist",
                          Content("iteration_msg", [i \in DOMAIN boost |-> boost[i].name]),
                          "modification", None, None)))

-----------------------------------------------------------------------------
(* The agent nodes.  Each is the whole node function, its try/except       *)
(* included: it maps the world it receives to the world it returns.        *)

\* state.errors.append(...)
AppendError(w, text) == [w EXCEPT !.s.errors = Append(@, text)]

EnsureExperts(w) ==
    ByValue(w, LAMBDA v : IF DOMAIN v.s.experts = {} THEN InitializeExperts(v) ELSE v)

WithContext(w, topic, phase) ==
    ByValue(w, LAMBDA v :
        [v EXCEPT !.s = UpdateContext(v.s, Some(topic), Some(phase), None, None)])

\* A faulty create_expert_discussion: the concern is raised below the
\* target of 6.0.
CreateExpertDiscussionBelowTarget(w, analysis) ==
    ByValue(analysis, LAMBDA a :
        LET w1 == EnsureExperts(w)
            w2 == WithContext(w1, "Psychonutrition Analysis", "analysis")
            w3 == IF a.anxiety_score < 60
                  THEN AddMessage(w2, "psychonutritionist",
                           Content("concern_msg", FirstN(a.key_nutrients, 3)),
                           "concern", None, None)
                  ELSE AddMessage(w2, "psychonutritionist",
                           Content("approval_msg",
                                   a.key_nutrients \o FirstN(a.mechanisms, 3)),
                           "approval", None, None)
        IN AddMessage(w3, "psychonutritionist", Content("seasonal_question", <<>>),
                      "question", Some("seasonal_expert"), None))

\* psychonutrition_collaborative.py: create_expert_discussion
CreateExpertDiscussion(w, analysis) ==
    ByValue(analysis, LAMBDA a :
        LET w1 == EnsureExperts(w)
            w2 == WithContext(w1, "Psychonutrition Analysis", "analysis")
            w3 == IF a.anxiety_score < 50
                  THEN AddMessage(w2, "psychonutritionist",
                           Content("concern_msg", FirstN(a.key_nutrients, 3)),
                           "concern", None, None)
                  ELSE AddMessage(w2, "psychonutritionist",
                           Content("approval_msg",
                                   a.key_nutrients \o FirstN(a.mechanisms, 3)),
                           "approval", None, None)
        IN AddMessage(w3, "psychonutritionist", Content("seasonal_question", <<>>),
                      "question", Some("seasonal_expert"), None))

\* psychonutrition_collaborative.py: analyze_psychonutrition_node
AnalyzePsychonutritionNode(w, e) ==
    ByValue(w, LAMBDA v :
        IF ~HasRecipe(v.s) THEN AppendError(v, "No recipe to analyze")
        ELSE LET loaded == LoadNutrientDatabase(e.nutrient_file)
             IN IF loaded.raised
                THEN AppendError(v, "Psychonutrition analysis error")
                ELSE ByValue(Analyze(v.s.recipe[1], loaded.db), LAMBDA analysis :
                        CreateExpertDiscussion(
                            [v EXCEPT !.s.recipe[1].psychonutrition_analysis =
                                         Some(analysis)],
                            analysis)))

\* A faulty recipe_improvement_node: it improves until the target is met or
\* two passes were made.
RecipeImprovementNodeTwice(w, e) ==
    ByValue(w, LAMBDA v :
        IF ~ShouldIterateRecipe(v.s) THEN v
        ELSE ByValue(AnalyzePsychonutritionNode(ImproveRecipe(v), e), LAMBDA w2 :
                AddMessage(AnalyzePsychonutritionNode(ImproveRecipe(w2), e),
                           "psychonutritionist", Content("summary_msg", <<>>),
                           "final_decision", None, None)))

\* A faulty recipe_improvement_node: the improved recipe is not analysed
\* again.
RecipeImprovementNodeWithoutAnalysis(w, e) ==
    ByValue(w, LAMBDA v :
        IF ~ShouldIterateRecipe(v.s) THEN v
        ELSE AddMessage(ImproveRecipe(v), "psychonutritionist",
                        Content("summary_msg", <<>>), "final_decision", None, None))

\* recipe_improvement.py: recipe_improvement_node
RecipeImprovementNode(w, e) ==
    ByValue(w, LAMBDA v :
        IF ~ShouldIterateRecipe(v.s) THEN v
        ELSE LET w1 == ImproveRecipe(v)
                 w2 == AnalyzePsychonutritionNode(w1, e)
             IN AddMessage(w2, "psychonutritionist", Content("summary_msg", <<>>),
                           "final_decision", None, None))

\* A faulty create_seasonal_expert_response: its answer refers to the
\* psychonutritionist's question.
CreateSeasonalExpertResponseReferring(w) ==
    ByValue(w, LAMBDA v :
        LET conversation == GetConversationForExpert(v.s, "seasonal_expert", TRUE)
            psycho_questions ==
                SelectSeq(conversation, LAMBDA msg :
                    msg.from_expert = "psychonutritionist" /\ msg.message_type = "question")
            noted == FirstN(FirstN(v.s.recipe[1].ingredients, 5), 3)
            w1 == IF psycho_questions # <<>>
                  THEN AddMessage(v, "seasonal_expert",
                           Content("response_msg", [i \in DOMAIN noted |-> noted[i].name]),
                           "opinion", Some("psychonutritionist"),
                           Some(Last(psycho_questions).id))
                  ELSE v
        IN AddMessage(w1, "seasonal_expert", Content("chef_suggestion", <<>>),
                      "question", Some("chef"), None))

\* seasonal_collaborative.py: create_seasonal_expert_response, after its
\* load_seasonal_data succeeded.
CreateSeasonalExpertResponse(w) ==
    ByValue(w, LAMBDA v :
        LET conversation == GetConversationForExpert(v.s, "seasonal_expert", TRUE)
            psycho_questions ==
                SelectSeq(conversation, LAMBDA msg :
                    msg.from_expert = "psychonutritionist" /\ msg.message_type = "question")
            noted == FirstN(FirstN(v.s.recipe[1].ingredients, 5), 3)
            w1 == IF psycho_questions # <<>>
                  THEN AddMessage(v, "seasonal_expert",
                           Content("response_msg", [i \in DOMAIN noted |-> noted[i].name]),
                           "opinion", Some("psychonutritionist"), None)
                  ELSE v
        IN AddMessage(w1, "seasonal_expert", Content("chef_suggestion", <<>>),
                      "question", Some("chef"), None))

\* The substitutions of seasonal_optimization_node
\* (seasonal_collaborative.py:152-164).
TomatoSubstitutions(recipe, season_ingredients, current_season) ==
    ByValue(recipe.ingredients, LAMBDA ings :
        IF season_ingredients = <<>> THEN <<>>
        ELSE Concat([i \in DOMAIN ings |->
                IF /\ IsSubstring(K_tomato, Lower(ings[i].name))
                   /\ current_season = "winter"
                THEN <<[original |-> ings[i].name,
                        substitute |-> "canned tomatoes",
                        reason |-> "Fresh tomatoes are out of season",
                        adjustment |-> "Use high-quality canned for better flavor"]>>
                ELSE <<>>]))

\* seasonal_collaborative.py: seasonal_optimization_node.  The first
\* load_seasonal_data is made, by create_seasonal_expert_response, after the
\* experts and the context were updated.
SeasonalOptimizationNode(w, e) ==
    ByValue(w, LAMBDA v :
        IF ~HasRecipe(v.s) THEN AppendError(v, "No recipe to optimize for season")
        ELSE
          LET w1 == EnsureExperts(v)
              w2 == WithContext(w1, "Seasonal Optimization", "optimization")
              loaded == LoadSeasonalData(e.seasonal_file)
              current_season == IF v.s.request.season = "auto"
                                THEN GetCurrentSeason(e) ELSE v.s.request.season
              season_ingredients == IF current_season \in Seasons
                                    THEN loaded.data.seasons[current_season] ELSE <<>>
          IN IF loaded.raised THEN AppendError(w2, "Seasonal optimization error")
             ELSE
               ByValue(CreateSeasonalExpertResponse(w2), LAMBDA w3 :
                 ByValue(TomatoSubstitutions(w3.s.recipe[1], season_ingredients,
                                             current_season), LAMBDA substitutions :
                   LET variation ==
                         [name |-> Text("{} - {} Variation", <<w3.s.recipe[1].name>>),
                          season |-> current_season,
                          region |-> v.s.request.region,
                          substitutions |-> substitutions]
                   IN IF substitutions = <<>> THEN w3
                      ELSE AddMessage([w3 EXCEPT !.s.seasonal_variation = Some(variation)],
                               "seasonal_expert",
                               Content("optimization_msg",
                                       [i \in DOMAIN substitutions |->
                                           substitutions[i].original]),
                               "final_decision", None, None))))

\* chef_collaborative.py: create_chef_expert_response
CreateChefExpertResponse(w) ==
    ByValue(w, LAMBDA v :
        IF ~HasRecipe(v.s) THEN v
        ELSE
          ByValue(SelectSeq(GetConversationForExpert(v.s, "chef", TRUE), LAMBDA msg :
                      msg.to_expert = Some("chef") /\ msg.message_type = "question"),
                  LAMBDA questions_for_chef :
            LET latest_question == Last(questions_for_chef)
                w1 == IF /\ questions_for_chef # <<>>
                         /\ \/ ContentHas(latest_question.content, K_cooking_techniques)
                            \/ ContentHas(latest_question.content, K_maximize)
                      THEN AddMessage(
                              AddMessage(v, "chef", Content("technique_response", <<>>),
                                         "opinion", None, Some(latest_question.id)),
                              "chef", Content("nutrition_question", <<>>),
                              "question", Some("psychonutritionist"), None)
                      ELSE v
            IN AddMessage(w1, "chef", Content("culinary_assessment", <<>>),
                          "approval", None, None)))

ChefTips ==
    <<"Bloom spices in oil for 30 seconds to enhance flavor compounds",
      "Cook magnesium-rich ingredients separately to prevent mineral leaching",
      "Add fermented components at the end to preserve probiotic benefits",
      "Use low-temperature cooking for omega-3 rich ingredients",
      "Finish with acid (lemon) to enhance mineral absorption">>

\* A faulty enhancement: the recipe is replaced by a new one that carries
\* only the chef's tips.
EnhanceRecipeReplacing(w) ==
    ByValue(w, LAMBDA v :
        IF ~HasRecipe(v.s) THEN v
        ELSE [v EXCEPT !.s.recipe =
                Some([v.s.recipe[1] EXCEPT !.ingredients = <<>>,
                                           !.chef_tips = ChefTips,
                                           !.difficulty = "medium"])])

\* A faulty enhancement: the five tips are appended whether present or not.
EnhanceRecipeAppendingAll(w) ==
    ByValue(w, LAMBDA v :
        IF ~HasRecipe(v.s) THEN v
        ELSE
          LET tips == v.s.recipe[1].chef_tips \o ChefTips
          IN [v EXCEPT !.s.recipe[1].chef_tips = tips,
                       !.s.recipe[1].difficulty = IF Len(tips) > 3 THEN "medium" ELSE @])

\* chef_collaborative.py: enhance_recipe_with_chef_insights
EnhanceRecipeWithChefInsights(w) ==
    ByValue(w, LAMBDA v :
        IF ~HasRecipe(v.s) THEN v
        ELSE
          LET old == v.s.recipe[1].chef_tips
              tips == old \o SelectSeq(ChefTips, LAMBDA tip :
                                \A i \in DOMAIN old : old[i] # tip)
          IN [v EXCEPT !.s.recipe[1].chef_tips = tips,
                       !.s.recipe[1].difficulty = IF Len(tips) > 3 THEN "medium" ELSE @])

\* chef_collaborative.py: chef_collaboration_node
ChefCollaborationNode(w) ==
    EnhanceRecipeWithChefInsights(
        CreateChefExpertResponse(
            WithContext(EnsureExperts(w), "Culinary Refinement", "refinement")))

\* A faulty create_final_consensus: consensus_reached is left as the last
\* context update computed it.
CreateFinalConsensusWithoutFlag(w) ==
    LET w1 == AddMessage(w, "psychonutritionist",
                         Content("final_nutrition_approval", <<>>),
                         "final_decision", None, None)
        w2 == AddMessage(w1, "seasonal_expert", Content("seasonal_approval", <<>>),
                         "final_decision", None, None)
        w3 == AddMessage(w2, "chef", Content("culinary_approval", <<>>),
                         "final_decision", None, None)
    IN [w3 EXCEPT !.s.conversation_context.phase = "finalized"]

\* conversation_summary.py: create_final_consensus, when the analysis it
\* formats is present.
CreateFinalConsensus(w) ==
    LET w1 == AddMessage(w, "psychonutritionist",
                         Content("final_nutrition_approval", <<>>),
                         "final_decision", None, None)
        w2 == AddMessage(w1, "seasonal_expert", Content("seasonal_approval", <<>>),
                         "final_decision", None, None)
        w3 == AddMessage(w2, "chef", Content("culinary_approval", <<>>),
                         "final_decision", None, None)
    IN [w3 EXCEPT !.s.conversation_context.consensus_reached = TRUE,
                  !.s.conversation_context.phase = "finalized"]

\* A faulty conversation_summary_node: a missing analysis does not stop the
\* final consensus.
ConversationSummaryNodeLenient(w) ==
    ByValue(w, LAMBDA v :
        IF DOMAIN v.s.experts = {} \/ v.s.conversation = <<>> THEN v
        ELSE CreateFinalConsensus(v))

\* conversation_summary.py: conversation_summary_node.  Formatting
\* state.recipe.psychonutrition_analysis.anxiety_score raises when the
\* recipe or its analysis is None.
ConversationSummaryNode(w) ==
    ByValue(w, LAMBDA v :
        IF DOMAIN v.s.experts = {} \/ v.s.conversation = <<>> THEN v
        ELSE IF ~HasAnalysis(v.s) THEN AppendError(v, "Conversation summary error")
        ELSE CreateFinalConsensus(v))

-----------------------------------------------------------------------------
(* graph.py: the workflow.                                                 *)

\* should_analyze_psychonutrition
ShouldAnalyzePsychonutrition(s) ==
    IF s.request.anxiety_focus THEN "psychonutrition" ELSE "seasonal_check"

\* A faulty gate: a score of exactly 6.0 is sent to the improvement.
ShouldImproveRecipeInclusive(s) ==
    IF HasAnalysis(s) /\ AnxietyScore(s) <= 60
    THEN "recipe_improvement" ELSE "seasonal_check"

\* should_improve_recipe
ShouldImproveRecipe(s) ==
    IF HasAnalysis(s) /\ AnxietyScore(s) < 60
    THEN "recipe_improvement" ELSE "seasonal_check"

\* should_optimize_seasonal
ShouldOptimizeSeasonal(s) ==
    IF s.request.season # "" /\ s.request.season # "auto"
    THEN "seasonal" ELSE "chef_review"

\* The requests a run is started with.
Requests ==
    {[anxiety_focus |-> a, season |-> x, region |-> "europe"] :
        a \in BOOLEAN, x \in {"", "auto", "winter", "summer"}}

\* The recipes the generation backend returns.
IngredientLists ==
    {<<Ingredient(S_rice, 100, "cup")>>,
     <<Ingredient(S_Salmon, 200, "g"), Ingredient(S_spinach, 100, "cup"),
       Ingredient(S_yogurt, 50, "ml")>>,
     <<Ingredient(S_Salmon, 200, "g"), Ingredient(S_spinach, 100, "cup"),
       Ingredient(S_yogurt, 50, "ml"), Ingredient(S_turkey, 100, "g")>>,
     <<Ingredient(S_Salmon, 200, "g"), Ingredient(S_spinach, 100, "cup"),
       Ingredient(S_yogurt, 50, "ml"), Ingredient(S_turkey, 100, "g"),
       Ingredient(S_Tomato, 200, "g"), Ingredient(S_avocado, 100, "whole")>>}

BackendAnalyses ==
    {None,
     Some([anxiety_score |-> 59, key_nutrients |-> <<>>, mechanisms |-> <<>>,
           recommendations |-> <<>>]),
     Some([anxiety_score |-> 30, key_nutrients |-> <<>>, mechanisms |-> <<>>,
           recommendations |-> <<>>])}

BackendTips ==
    {[chef_tips |-> <<>>, difficulty |-> "easy"],
     [chef_tips |-> <<"Rest the fish before serving",
                      "Finish with acid (lemon) to enhance mineral absorption">>,
      difficulty |-> "hard"]}

GeneratedRecipes ==
    {[name |-> Text("Salmon Bowl", <<>>),
      description |-> Text("A calming bowl.", <<>>),
      ingredients |-> ings,
      instructions |-> <<"Cook it", "Serve hot">>,
      psychonutrition_analysis |-> an,
      chef_tips |-> tp.chef_tips,
      difficulty |-> tp.difficulty] :
        ings \in IngredientLists, an \in BackendAnalyses, tp \in BackendTips}

Todays == {"winter", "summer"}

Init ==
    /\ \E request \in Requests : state = InitialState(request)
    /\ uuid = 0
    /\ pc = "generate_recipe"
    /\ visited = <<>>
    /\ \E nf \in NutrientFiles, sf \in SeasonalFiles, td \in Todays :
          env = [nutrient_file |-> nf, seasonal_file |-> sf, today |-> td]
    /\ lastOp = NoOp
    /\ retList = <<>>
    /\ retBool = FALSE

\* A node ran: the state it returned replaces the state, and the edge out of
\* the node chooses the next one.
Ran(node, w, next) ==
    /\ \E v \in {w} : state' = v.s /\ uuid' = v.u
    /\ visited' = Append(visited, node)
    /\ pc' = next
    /\ UNCHANGED <<env, lastOp, retList, retBool>>

\* recipe_generator.py: generate_recipe_node returns the backend's recipe.
GenerateRecipeNode(w, recipe) ==
    [w EXCEPT !.s.recipe = Some(recipe),
              !.s.messages = Append(@, "Generated recipe")]

GenerateRecipe ==
    /\ pc = "generate_recipe"
    /\ \E recipe \in GeneratedRecipes :
          \E w \in {GenerateRecipeNode(World(state, uuid), recipe)} :
              Ran("generate_recipe", w, ShouldAnalyzePsychonutrition(w.s))

\* A faulty failure path: the exception is logged on the state.
GenerationFailureLogged(w) == AppendError(w, "Recipe generation error")

\* generate_recipe_node when the backend call or the parsing of its output
\* raises: the exception leaves the node before state.recipe is assigned.
GenerationFailure(w) == w

\* The exception leaves graph.stream: no further node runs.
GenerateRecipeFails ==
    /\ pc = "generate_recipe"
    /\ Ran("generate_recipe", GenerationFailure(World(state, uuid)), "aborted")

Psychonutrition ==
    /\ pc = "psychonutrition"
    /\ \E w \in {AnalyzePsychonutritionNode(World(state, uuid), env)} :
          Ran("psychonutrition", w, ShouldImproveRecipe(w.s))

\* A faulty edge: the improvement loops back into the analysis.
AfterRecipeImprovementLoop == "psychonutrition"

\* workflow.add_edge("recipe_improvement", "seasonal_check")
AfterRecipeImprovement == "seasonal_check"

RecipeImprovement ==
    /\ pc = "recipe_improvement"
    /\ Ran("recipe_improvement", RecipeImprovementNode(World(state, uuid), env),
           AfterRecipeImprovement)

SeasonalCheck ==
    /\ pc = "seasonal_check"
    /\ Ran("seasonal_check", World(state, uuid), ShouldOptimizeSeasonal(state))

Seasonal ==
    /\ pc = "seasonal"
    /\ Ran("seasonal", SeasonalOptimizationNode(World(state, uuid), env), "chef_review")

ChefReview ==
    /\ pc = "chef_review"
    /\ Ran("chef_review", ChefCollaborationNode(World(state, uuid)), "expert_summary")

ExpertSummary ==
    /\ pc = "expert_summary"
    /\ Ran("expert_summary", ConversationSummaryNode(World(state, uuid)), "END")

Next ==
    \/ GenerateRecipe
    \/ GenerateRecipeFails
    \/ Psychonutrition
    \/ RecipeImprovement
    \/ SeasonalCheck
    \/ Seasonal
    \/ ChefReview
    \/ ExpertSummary

\* One run of the compiled graph on one request.
Spec == Init /\ [][Next]_vars

\* graph.stream runs every node it reaches to completion.
FairSpec == Spec /\ WF_vars(Next)

-----------------------------------------------------------------------------
(* Direct callers of the ConversationManager: the state of a fresh         *)
(* RecipeState on which add_message, get_conversation_for_expert,          *)
(* check_consensus and update_context are called in any order, with        *)
(* arguments drawn from small sets.                                        *)

DefaultRequest == [anxiety_focus |-> TRUE, season |-> "auto", region |-> "europe"]

\* The messages a direct caller adds: a broadcast, a message an expert
\* addresses to itself, and a message addressed to another expert.
CallerMessages ==
    {[from_expert |-> "psychonutritionist", to_expert |-> None,
      message_type |-> "approval", content |-> Content("caller_text", <<>>)],
     [from_expert |-> "chef", to_expert |-> Some("chef"),
      message_type |-> "concern", content |-> Content("caller_add_kale", <<>>)],
     [from_expert |-> "seasonal_expert", to_expert |-> Some("chef"),
      message_type |-> "question", content |-> Content("caller_text", <<>>)]}

CallerTopics == {None, Some(""), Some("Seasonal Optimization")}
CallerPhases == {None, Some("optimization")}
CallerDecisions == {None, Some("use canned tomatoes")}
CallerQuestions == {None, Some("which season?")}

ApiEnv == [nutrient_file |-> [status |-> "missing", db |-> EmptyNutrientDb],
           seasonal_file |-> [status |-> "missing", data |-> EmptySeasonalData],
           today |-> "winter"]

InitApi ==
    /\ state = InitialState(DefaultRequest)
    /\ uuid = 0
    /\ pc = "api"
    /\ visited = <<>>
    /\ env = ApiEnv
    /\ lastOp = NoOp
    /\ retList = <<>>
    /\ retBool = FALSE

AddMessageCall(bound) ==
    /\ pc = "api"
    /\ Len(state.conversation) < bound
    /\ \E m \in CallerMessages :
          LET w == AddMessage(World(state, uuid), m.from_expert, m.content,
                              m.message_type, m.to_expert, None)
          IN /\ state' = w.s
             /\ uuid' = w.u
    /\ lastOp' = [NoOp EXCEPT !.op = "add_message"]
    /\ retList' = <<>>
    /\ retBool' = FALSE
    /\ UNCHANGED <<pc, visited, env>>

LogAddMessage == AddMessageCall(MaxLog)
CtxAddMessage == AddMessageCall(MaxCtxLog)

\* A faulty query: the messages it returns are removed from the log.
GetConversationDraining(s, expert, include_general) ==
    [ret |-> GetConversationForExpert(s, expert, include_general),
     s |-> [s EXCEPT !.conversation =
              SelectSeq(@, LAMBDA m :
                  \A i \in DOMAIN GetConversationForExpert(s, expert, include_general) :
                      GetConversationForExpert(s, expert, include_general)[i] # m)]]

\* A call of get_conversation_for_expert: what it returns and the state it
\* leaves.
GetConversationCall(s, expert, include_general) ==
    [ret |-> GetConversationForExpert(s, expert, include_general), s |-> s]

LogGetConversation ==
    /\ pc = "api"
    /\ \E expert \in ExpertRole, include_general \in BOOLEAN :
          LET r == GetConversationCall(state, expert, include_general)
          IN /\ state' = r.s
             /\ retList' = r.ret
             /\ lastOp' = [NoOp EXCEPT !.op = "get", !.expert = expert,
                                       !.general = include_general]
    /\ retBool' = FALSE
    /\ UNCHANGED <<uuid, pc, visited, env>>

LogCheckConsensus ==
    /\ pc = "api"
    /\ retBool' = CheckConsensus(state)
    /\ lastOp' = [NoOp EXCEPT !.op = "check"]
    /\ retList' = <<>>
    /\ UNCHANGED <<state, uuid, pc, visited, env>>

Provided(o) == IF Truthy(o) THEN 1 ELSE 0

CtxUpdateContext ==
    /\ pc = "api"
    /\ \E topic \in CallerTopics, phase \in CallerPhases,
          decision \in CallerDecisions, question \in CallerQuestions :
          /\ Len(state.conversation_context.decisions_made)
                + Len(state.conversation_context.pending_questions)
                + Provided(decision) + Provided(question) <= MaxCtxEntries
          /\ state' = UpdateContext(state, topic, phase, decision, question)
          /\ lastOp' = [NoOp EXCEPT !.op = "update", !.topic = topic,
                                    !.phase = phase, !.decision = decision,
                                    !.question = question]
    /\ retList' = <<>>
    /\ retBool' = FALSE
    /\ UNCHANGED <<uuid, pc, visited, env>>

NextLog == LogAddMessage \/ LogGetConversation \/ LogCheckConsensus
NextCtx == CtxAddMessage \/ CtxUpdateContext

\* Graph runs and direct calls of the ConversationManager alike.
SpecAll == (Init \/ InitApi) /\ [][Next \/ NextLog]_vars
\* Direct calls of add_message, get_conversation_for_expert, check_consensus.
SpecLog == InitApi /\ [][NextLog]_vars
\* Direct calls of add_message and update_context.
SpecCtx == InitApi /\ [][NextCtx]_vars

-----------------------------------------------------------------------------
(* Direct callers of the RecipeIterator: should_iterate_recipe and         *)
(* improve_recipe are called on a state whose recipe, analysis and         *)
(* conversation log are drawn from small sets.  The log is one leading     *)
(* message (or none), some filler messages and some trailing messages, all *)
(* added with add_message.                                                 *)

\* The messages of those logs: a neutral one, a concern without keywords,
\* one that says "add" and "kale", the psychonutritionist's concern, which
\* says "add", "walnut", "chia" and "pumpkin seed", and the seasonal expert's
\* reply, which names keywords without "add".
IterMessages ==
    {[from_expert |-> "chef", message_type |-> "approval",
      content |-> Content("caller_text", <<>>)],
     [from_expert |-> "chef", message_type |-> "concern",
      content |-> Content("caller_text", <<>>)],
     [from_expert |-> "chef", message_type |-> "suggestion",
      content |-> Content("caller_add_kale", <<>>)],
     [from_expert |-> "psychonutritionist", message_type |-> "concern",
      content |-> Content("concern_msg", <<>>)],
     [from_expert |-> "seasonal_expert", message_type |-> "opinion",
      content |-> Content("response_msg", <<>>)]}

IterFiller == [from_expert |-> "chef", message_type |-> "question",
               content |-> Content("caller_text", <<>>)]

\* The logs' shapes: leading message, number of fillers, trailing messages.
IterLeads == {<<>>} \cup {<<m>> : m \in IterMessages}
IterTails == UNION {[1..n -> IterMessages] : n \in 0..MaxIterTail}
IterShape(lead, fill, tail) == lead \o [i \in 1..fill |-> IterFiller] \o tail

\* The analyses a caller's recipe carries: none, or one with a score of
\* 0, 4.9, 5.0, 5.9 or 6.0.
IterAnalyses ==
    {None} \cup
    {Some([anxiety_score |-> sc, key_nutrients |-> <<>>, mechanisms |-> <<>>,
           recommendations |-> <<>>]) : sc \in {0, 49, 50, 59, 60}}

IterIngredientLists ==
    {<<Ingredient(S_rice, 100, "cup")>>,
     <<Ingredient(S_Salmon, 200, "g"), Ingredient(S_spinach, 100, "cup"),
       Ingredient(S_avocado, 100, "whole")>>}

IterRecipes ==
    {None} \cup
    {Some([name |-> Text("Salmon Bowl", <<>>),
           description |-> Text("A calming bowl.", <<>>),
           ingredients |-> ings,
           instructions |-> <<"Cook it", "Serve hot">>,
           psychonutrition_analysis |-> an,
           chef_tips |-> <<>>,
           difficulty |-> "easy"]) : ings \in IterIngredientLists, an \in IterAnalyses}

\* add_message called for each message of a list, in order.
RECURSIVE AddAll(_, _)
AddAll(w, msgs) ==
    ByValue2(w, msgs, LAMBDA v, ms :
        IF ms = <<>> THEN v
        ELSE AddAll(AddMessage(v, Head(ms).from_expert, Head(ms).content,
                               Head(ms).message_type, None, None),
                    Tail(ms)))

InitIter ==
    /\ \E recipe \in IterRecipes, lead \in IterLeads, fill \in 0..MaxIterFill,
          tail \in IterTails :
          \E w \in {AddAll(World([InitialState(DefaultRequest) EXCEPT !.recipe = recipe], 0),
                           IterShape(lead, fill, tail))} :
              state = w.s /\ uuid = w.u
    /\ pc = "iter"
    /\ visited = <<>>
    /\ env = ApiEnv
    /\ lastOp = NoOp
    /\ retList = <<>>
    /\ retBool = FALSE

\* A call of should_iterate_recipe.
IterShouldIterate ==
    /\ pc = "iter"
    /\ retBool' = ShouldIterateRecipe(state)
    /\ lastOp' = [NoOp EXCEPT !.op = "should_iterate"]
    /\ retList' = <<>>
    /\ UNCHANGED <<state, uuid, pc, visited, env>>

\* A call of improve_recipe.
IterImproveRecipe ==
    /\ pc = "iter"
    /\ Count(state.conversation, LAMBDA m : m.message_type = "modification") < MaxImproves
    /\ \E w \in {ImproveRecipe(World(state, uuid))} : state' = w.s /\ uuid' = w.u
    /\ lastOp' = [NoOp EXCEPT !.op = "improve"]
    /\ retList' = <<>>
    /\ retBool' = FALSE
    /\ UNCHANGED <<pc, visited, env>>

NextIter == IterShouldIterate \/ IterImproveRecipe

\* Direct calls of should_iterate_recipe and improve_recipe.
SpecIter == InitIter /\ [][NextIter]_vars

-----------------------------------------------------------------------------
(* Direct callers of the scoring engine: both calculate_anxiety_score      *)
(* functions and the analysis node are applied to a recipe and a nutrient  *)
(* database drawn from small sets.  A database is a number of categories   *)
(* fed by oily fish, nuts and seeds, a number fed by greens, optionally   *)
(* the probiotics category, and a number of food combinations.             *)

\* A database of a categories fed by oily fish, nuts and seeds, b categories
\* fed by greens, the probiotics category when p, and c food combinations.
\* The keys of a JSON object are distinct.
ScoreDb(a, b, p, c) ==
    LET KeysA == <<"omega3", "dha", "epa", "vitamin_d", "selenium", "iodine">>
        KeysB == <<"magnesium", "folate", "iron", "potassium", "vitamin_k", "fiber">>
        CategoryA(i) ==
            [key |-> KeysA[i], name |-> <<"n", KeysA[i]>>,
             anxiety_benefit |-> <<"b", KeysA[i]>>,
             sources |-> <<K_salmon, K_walnut, K_chia>>,
             mechanism |-> Some(<<"m", "1">>), recommendation |-> Some(<<"r", "1">>)]
        CategoryB(i) ==
            [key |-> KeysB[i], name |-> <<"n", KeysB[i]>>,
             anxiety_benefit |-> <<"b", KeysB[i]>>,
             sources |-> <<K_spinach, K_avocado, K_kale, K_pumpkin_seed>>,
             mechanism |-> Some(<<"m", "2">>), recommendation |-> None]
        Probiotics ==
            [key |-> "probiotics", name |-> <<"p", "r", "o">>,
             anxiety_benefit |-> <<"b", "probiotics">>,
             sources |-> <<K_yogurt>>,
             mechanism |-> Some(<<"m", "5">>), recommendation |-> Some(<<"r", "5">>)]
    IN [nutrients |-> [i \in 1..a |-> CategoryA(i)] \o [i \in 1..b |-> CategoryB(i)]
                      \o (IF p THEN <<Probiotics>> ELSE <<>>),
        food_combinations |-> [i \in 1..c |-> <<K_salmon, K_spinach>>]]

ScoreIngredientLists ==
    {<<>>,
     <<Ingredient(S_rice, 100, "cup")>>,
     <<Ingredient(S_Fresh_Atlantic_Salmon_Fillet, 200, "g")>>,
     <<Ingredient(S_Salmon, 200, "g"), Ingredient(S_spinach, 100, "cup"),
       Ingredient(S_yogurt, 50, "ml")>>,
     <<Ingredient(S_Salmon, 200, "g"), Ingredient(S_chopped_walnuts, 25, "cup"),
       Ingredient(S_chia_seeds, 100, "tbsp"), Ingredient(S_fresh_spinach, 200, "cups"),
       Ingredient(S_avocado, 100, "whole"), Ingredient(S_chopped_kale, 100, "cup"),
       Ingredient(S_pumpkin_seeds, 25, "cup"), Ingredient(S_yogurt, 50, "ml")>>,
     <<Ingredient(S_Fresh_Atlantic_Salmon_Fillet, 200, "g"),
       Ingredient(S_chopped_walnuts, 25, "cup"), Ingredient(S_chia_seeds, 100, "tbsp"),
       Ingredient(S_fresh_spinach, 200, "cups"), Ingredient(S_avocado, 100, "whole"),
       Ingredient(S_chopped_kale, 100, "cup")>>}

ScoreRecipe(ings) ==
    [name |-> Text("Salmon Bowl", <<>>),
     description |-> Text("A calming bowl.", <<>>),
     ingredients |-> ings,
     instructions |-> <<"Cook it", "Serve hot">>,
     psychonutrition_analysis |-> None,
     chef_tips |-> <<>>,
     difficulty |-> "easy"]

InitScore ==
    /\ \E ings \in ScoreIngredientLists :
          state = [InitialState(DefaultRequest) EXCEPT !.recipe = Some(ScoreRecipe(ings))]
    /\ \E a \in 0..MaxCats, b \in 0..MaxCats, p \in BOOLEAN, c \in 0..MaxCombos :
          env = [ApiEnv EXCEPT !.nutrient_file = [status |-> "ok", db |-> ScoreDb(a, b, p, c)]]
    /\ uuid = 0
    /\ pc = "score"
    /\ visited = <<>>
    /\ lastOp = NoOp
    /\ retList = <<>>
    /\ retBool = FALSE

\* A call of the basic calculate_anxiety_score.
ScoreBasic ==
    /\ pc = "score"
    /\ retList' = <<CalculateAnxietyScoreBasic(state.recipe[1], env.nutrient_file.db)>>
    /\ lastOp' = [NoOp EXCEPT !.op = "score_basic"]
    /\ retBool' = FALSE
    /\ UNCHANGED <<state, uuid, pc, visited, env>>

\* A call of the collaborative calculate_anxiety_score.
ScoreCollaborative ==
    /\ pc = "score"
    /\ retList' = <<CalculateAnxietyScore(state.recipe[1], env.nutrient_file.db)>>
    /\ lastOp' = [NoOp EXCEPT !.op = "score_collaborative"]
    /\ retBool' = FALSE
    /\ UNCHANGED <<state, uuid, pc, visited, env>>

\* A call of analyze_psychonutrition_node on a recipe without an analysis.
ScoreAnalyze ==
    /\ pc = "score"
    /\ ~HasAnalysis(state)
    /\ \E w \in {AnalyzePsychonutritionNode(World(state, uuid), env)} :
          state' = w.s /\ uuid' = w.u
    /\ lastOp' = [NoOp EXCEPT !.op = "analyze"]
    /\ retList' = <<>>
    /\ retBool' = FALSE
    /\ UNCHANGED <<pc, visited, env>>

\* A call of the basic analyze_psychonutrition_node on a recipe without an
\* analysis.
ScoreAnalyzeBasic ==
    /\ pc = "score"
    /\ ~HasAnalysis(state)
    /\ state' = [state EXCEPT
                   !.recipe[1].psychonutrition_analysis =
                       Some(AnalyzeBasic(state.recipe[1], env.nutrient_file.db)),
                   !.messages = Append(@, "Psychonutrition analysis complete")]
    /\ lastOp' = [NoOp EXCEPT !.op = "analyze_basic"]
    /\ retList' = <<>>
    /\ retBool' = FALSE
    /\ UNCHANGED <<uuid, pc, visited, env>>

NextScore == ScoreBasic \/ ScoreCollaborative \/ ScoreAnalyze \/ ScoreAnalyzeBasic

\* Direct calls of the scoring engine.
SpecScore == InitScore /\ [][NextScore]_vars

\* A graph run, or direct calls of the scoring engine.
SpecImprovement == (Init \/ InitScore) /\ [][Next \/ NextScore]_vars

-----------------------------------------------------------------------------
(* agents/seasonal.py: find_substitutions, and its direct callers.  The   *)
(* seasonal database maps a category to its entries in the order of the   *)
(* file; an entry has a key, a peak_season list and, for some seasons, a  *)
(* substitute with a reason.                                               *)

SubstitutionCategories == <<"vegetables", "fruits", "herbs", "fish">>

\* One way only: a faulty match that never looks for the ingredient name
\* inside the entry key.
SeasonalMatchOneWay(item_name, ingredient_name) ==
    IsSubstring(item_name, ingredient_name)

\* item_name in ingredient_name or ingredient_name in item_name
SeasonalMatch(item_name, ingredient_name) ==
    IsSubstring(item_name, ingredient_name) \/ IsSubstring(ingredient_name, item_name)

\* f"Use same quantity: {ingredient.quantity} {ingredient.unit}"
SameQuantity(ingredient) ==
    Text("Use same quantity: {} {}", <<ingredient.quantity, ingredient.unit>>)

\* The substitutions find_substitutions appends for one ingredient and one
\* entry of a category.
EntrySubstitutions(ingredient, item, season) ==
    IF /\ SeasonalMatch(item.key, Lower(ingredient.name))
       /\ \A k \in DOMAIN item.peak_season : item.peak_season[k] # season
       /\ season \in DOMAIN item.substitutes
    THEN <<[original |-> ingredient.name,
            substitute |-> item.substitutes[season].ingredient,
            reason |-> item.substitutes[season].reason,
            adjustment |-> SameQuantity(ingredient)]>>
    ELSE <<>>

\* seasonal_ingredients.get(category, {})
CategoryItems(seasonal_db, category) ==
    IF category \in DOMAIN seasonal_db.seasonal_ingredients
    THEN seasonal_db.seasonal_ingredients[category] ELSE <<>>

\* find_substitutions; the region is not used.
FindSubstitutions(recipe, season, region, seasonal_db) ==
    Concat([c \in DOMAIN SubstitutionCategories |->
        LET items == CategoryItems(seasonal_db, SubstitutionCategories[c])
        IN Concat([i \in DOMAIN recipe.ingredients |->
              Concat([e \in DOMAIN items |->
                  EntrySubstitutions(recipe.ingredients[i], items[e], season)])])])

\* What load_seasonal_database returns when the file does not exist.
NoSeasonalIngredients == [seasonal_ingredients |-> [c \in {} |-> <<>>]]

\* The databases load_seasonal_database reads: entries in and out of season,
\* with and without a substitute, a key longer than an ingredient name, a
\* capitalised key, and the same key in two categories.
SeasonalDatabases ==
    LET Item(key, peak, subs) == [key |-> key, peak_season |-> peak, substitutes |-> subs]
        Sub(ingredient, reason) == [ingredient |-> ingredient, reason |-> reason]
        Tomato == Item(K_tomato, <<"summer">>,
                       [x \in {"winter", "spring"} |-> Sub("canned tomatoes", "out of season")])
        CherryTomato == Item(K_cherry_tomato, <<"summer", "fall">>,
                             [x \in {"winter"} |-> Sub("sun-dried tomatoes", "keeps well")])
        CapitalTomato == Item(S_Tomato, <<>>,
                              [x \in Seasons |-> Sub("passata", "always available")])
        Spinach == Item(K_spinach, <<"winter", "spring">>,
                        [x \in {"summer", "winter"} |-> Sub("chard", "heat tolerant")])
        Kale == Item(K_kale, <<"winter">>, [x \in {} |-> Sub("", "")])
        TomatoFruit == Item(K_tomato, <<"summer">>,
                            [x \in {"winter"} |-> Sub("persimmon", "winter fruit")])
        Salmon == Item(K_salmon, <<"summer">>,
                       [x \in {"winter"} |-> Sub("cod", "winter catch")])
    IN {NoSeasonalIngredients} \cup
       {[seasonal_ingredients |->
           [c \in {"vegetables", "fruits", "herbs", "fish"} |->
               CASE c = "vegetables" -> v
                 [] c = "fruits" -> f
                 [] c = "herbs" -> h
                 [] OTHER -> s]] :
           v \in {<<>>, <<Tomato>>, <<Tomato, CherryTomato>>,
                  <<Spinach, Tomato>>, <<Kale, CapitalTomato>>},
           f \in {<<>>, <<TomatoFruit>>},
           h \in {<<>>, <<Spinach>>},
           s \in {<<>>, <<Salmon>>}}

SubstitutionIngredientLists ==
    {base \o [i \in 1..n |-> Ingredient(S_Tomato, 300, "g")] :
        base \in {<<>>, <<Ingredient(S_rice, 100, "cup")>>,
                  <<Ingredient(S_Salmon, 200, "g"), Ingredient(S_spinach, 100, "cup")>>,
                  <<Ingredient(S_chopped_kale, 100, "cup")>>},
        n \in 0..MaxSame}

\* seasonal.py: load_seasonal_database, for a file that is missing or holds
\* a database.
LoadSeasonalDatabase(file) ==
    IF file.status = "missing" THEN NoSeasonalIngredients ELSE file.data

InitSubstitutions ==
    /\ \E ings \in SubstitutionIngredientLists, x \in {"winter", "summer", "spring"} :
          state = [InitialState([DefaultRequest EXCEPT !.season = x])
                      EXCEPT !.recipe = Some(ScoreRecipe(ings))]
    /\ \E db \in SeasonalDatabases :
          env = [ApiEnv EXCEPT !.seasonal_file =
                    [status |-> IF db = NoSeasonalIngredients THEN "missing" ELSE "ok",
                     data |-> db]]
    /\ uuid = 0
    /\ pc = "substitutions"
    /\ visited = <<>>
    /\ lastOp = NoOp
    /\ retList = <<>>
    /\ retBool = FALSE

\* A call of find_substitutions.
FindSubstitutionsCall ==
    /\ pc = "substitutions"
    /\ retList' = FindSubstitutions(state.recipe[1], state.request.season,
                                    state.request.region,
                                    LoadSeasonalDatabase(env.seasonal_file))
    /\ lastOp' = [NoOp EXCEPT !.op = "find_substitutions"]
    /\ retBool' = FALSE
    /\ UNCHANGED <<state, uuid, pc, visited, env>>

NextSubstitutions == FindSubstitutionsCall

\* Direct calls of find_substitutions.
SpecSubstitutions == InitSubstitutions /\ [][NextSubstitutions]_vars
\* Graph runs and direct calls of find_substitutions alike.
SpecKnowledge == (Init \/ InitSubstitutions) /\ [][Next \/ NextSubstitutions]_vars

-----------------------------------------------------------------------------
(* db.py: the recipes table.  A column holds SQL NULL (None) or a value    *)
(* (Some); json.dumps wraps a value into a JSON text and json.loads        *)
(* unwraps it, raising TypeError on NULL.                                  *)

\* json.dumps(value)
JsonDumps(value) == [json |-> value]

\* json.loads(column): [raised, value].
JsonLoads(column) ==
    IF column = None THEN [raised |-> TRUE, value |-> None]
    ELSE [raised |-> FALSE, value |-> column[1].json]

\* model.model_dump(): the dict of the model's fields by name.
ModelDump(model) == [dict |-> model]

\* Model(**dict): populate_by_name accepts the field names model_dump writes.
ModelLoad(dumped) == dumped.dict

\* The values of the INSERT of save_recipe.
RecipeRow(recipe, id) ==
    [id |-> id,
     name |-> Some(recipe.name),
     description |-> Some(recipe.description),
     prep_time |-> Some(recipe.prep_time),
     cook_time |-> Some(recipe.cook_time),
     servings |-> Some(recipe.servings),
     ingredients |-> Some(JsonDumps([i \in DOMAIN recipe.ingredients |->
                                       ModelDump(recipe.ingredients[i])])),
     instructions |-> Some(JsonDumps(recipe.instructions)),
     nutrition |-> IF recipe.nutrition # None
                   THEN Some(JsonDumps(ModelDump(recipe.nutrition[1]))) ELSE None,
     psychonutrition_analysis |->
         IF recipe.psychonutrition_analysis # None
         THEN Some(JsonDumps(ModelDump(recipe.psychonutrition_analysis[1]))) ELSE None,
     tags |-> Some(JsonDumps(recipe.tags)),
     difficulty |-> Some(recipe.difficulty),
     cuisine |-> recipe.cuisine,
     season |-> recipe.season,
     chef_tips |-> Some(JsonDumps(recipe.chef_tips)),
     storage_instructions |-> recipe.storage_instructions,
     variations |-> Some(JsonDumps(recipe.variations))]

\* Database.save_recipe: the table after the INSERT; cursor.lastrowid is the
\* id of its last row.
SaveRecipe(rows, recipe) == Append(rows, RecipeRow(recipe, Len(rows) + 1))

\* Database._row_to_recipe: [raised, recipe].  json.loads(row["nutrition"])
\* is evaluated whatever the column holds.
RowToRecipe(row) ==
    LET nutrition == JsonLoads(row.nutrition)
    IN IF nutrition.raised THEN [raised |-> TRUE, recipe |-> None]
       ELSE [raised |-> FALSE,
             recipe |-> Some(
               [name |-> row.name[1],
                description |-> row.description[1],
                prep_time |-> row.prep_time[1],
                cook_time |-> row.cook_time[1],
                servings |-> row.servings[1],
                ingredients |-> [i \in DOMAIN JsonLoads(row.ingredients).value |->
                                   ModelLoad(JsonLoads(row.ingredients).value[i])],
                instructions |-> JsonLoads(row.instructions).value,
                nutrition |-> Some(ModelLoad(nutrition.value)),
                psychonutrition_analysis |->
                    IF row.psychonutrition_analysis # None
                    THEN Some(ModelLoad(JsonLoads(row.psychonutrition_analysis).value))
                    ELSE None,
                tags |-> JsonLoads(row.tags).value,
                difficulty |-> row.difficulty[1],
                cuisine |-> row.cuisine,
                season |-> row.season,
                chef_tips |-> JsonLoads(row.chef_tips).value,
                storage_instructions |-> row.storage_instructions,
                variations |-> JsonLoads(row.variations).value])]

\* Database.get_recipe: None when no row has the id.
GetRecipe(rows, recipe_id) ==
    IF recipe_id \in DOMAIN rows THEN RowToRecipe(rows[recipe_id])
    ELSE [raised |-> FALSE, recipe |-> None]

\* The recipes a caller saves.
Nutritions ==
    {None,
     Some([calories |-> 450, protein_g |-> 30, carbs_g |-> 40, fat_g |-> 15,
           fiber_g |-> 8, omega3_mg |-> None]),
     Some([calories |-> 450, protein_g |-> 30, carbs_g |-> 40, fat_g |-> 15,
           fiber_g |-> 8, omega3_mg |-> Some(1200)])}

StoredAnalyses ==
    {None,
     Some([anxiety_score |-> 65, key_nutrients |-> <<"Omega-3">>,
           mechanisms |-> <<"m1">>, recommendations |-> <<>>, cautions |-> None])}

DbRecipes ==
    {[name |-> "Salmon Bowl", description |-> "A calming bowl.",
      prep_time |-> 10, cook_time |-> 20, servings |-> 2,
      ingredients |-> ings,
      instructions |-> <<"Cook it", "Serve hot">>,
      nutrition |-> nu,
      psychonutrition_analysis |-> an,
      tags |-> <<"dinner">>, difficulty |-> "easy",
      cuisine |-> None, season |-> Some("winter"),
      chef_tips |-> <<>>, storage_instructions |-> None,
      variations |-> <<>>] :
        ings \in {<<>>, <<Ingredient(S_Salmon, 200, "g"), Ingredient(S_rice, 100, "cup")>>},
        nu \in Nutritions, an \in StoredAnalyses}

\* The table is empty after init_db.
InitDb ==
    /\ state = InitialState(DefaultRequest)
    /\ env = [nutrient_file |-> ApiEnv.nutrient_file,
              seasonal_file |-> ApiEnv.seasonal_file,
              today |-> ApiEnv.today,
              recipes |-> <<>>]
    /\ uuid = 0
    /\ pc = "db"
    /\ visited = <<>>
    /\ lastOp = NoOp
    /\ retList = <<>>
    /\ retBool = FALSE

\* db.save_recipe(recipe): the caller keeps the recipe and the id returned.
DbSaveRecipe ==
    /\ pc = "db"
    /\ Len(env.recipes) < MaxRows
    /\ \E recipe \in DbRecipes :
          /\ env' = [env EXCEPT !.recipes = SaveRecipe(@, recipe)]
          /\ state' = [state EXCEPT !.recipe = Some(recipe)]
    /\ retList' = <<Len(env.recipes) + 1>>
    /\ pc' = "saved"
    /\ lastOp' = [NoOp EXCEPT !.op = "save_recipe"]
    /\ retBool' = FALSE
    /\ UNCHANGED <<uuid, visited>>

\* What a call of get_recipe leaves: the recipe returned, or the exception.
Got(name, result) ==
    /\ retList' = result.recipe
    /\ lastOp' = [NoOp EXCEPT !.op = IF result.raised THEN name \o "_raised" ELSE name]
    /\ retBool' = FALSE
    /\ pc' = "db"
    /\ UNCHANGED <<state, env, uuid, visited>>

\* db.get_recipe on the id the save just returned.
DbGetSaved ==
    /\ pc = "saved"
    /\ Got("get_saved", GetRecipe(env.recipes, retList[1]))

\* db.get_recipe on any id.
DbGetRecipe ==
    /\ pc = "db"
    /\ \E recipe_id \in 1..(MaxRows + 1) :
          Got("get_recipe", GetRecipe(env.recipes, recipe_id))

NextDb == DbSaveRecipe \/ DbGetSaved \/ DbGetRecipe

\* Direct calls of the Database.
SpecDb == InitDb /\ [][NextDb]_vars

-----------------------------------------------------------------------------
(* cli.py: the generate command around a graph run.  env.output is the     *)
(* --output option (absent, a file that can be written, or a path whose    *)
(* write raises), env.pdf the --pdf option (absent, or an export that      *)
(* raises), env.saved the recipes save_recipe was called with.             *)

InitCli ==
    /\ \E request \in Requests : state = InitialState(request)
    /\ \E nf \in NutrientFiles, sf \in SeasonalFiles,
          output \in {"none", "writable", "unwritable"}, pdf \in {"none", "fails"} :
          env = [nutrient_file |-> nf, seasonal_file |-> sf, today |-> "winter",
                 output |-> output, pdf |-> pdf, saved |-> <<>>]
    /\ uuid = 0
    /\ pc = "generate_recipe"
    /\ visited = <<>>
    /\ lastOp = NoOp
    /\ retList = <<>>
    /\ retBool = FALSE

\* The except around graph.stream: raise typer.Exit(1).
CliAborts ==
    /\ pc = "aborted"
    /\ pc' = "exit_1"
    /\ UNCHANGED <<state, uuid, visited, env, lastOp, retList, retBool>>

\* generate after the stream ended: exit 1 without a recipe; otherwise the
\* output file is written (the exception of a failed write leaves the
\* command), the PDF is exported (its exceptions are caught) and the recipe
\* is saved.
CliFinish ==
    /\ pc = "END"
    /\ IF state.recipe = None
       THEN pc' = "exit_1" /\ env' = env
       ELSE IF env.output = "unwritable"
       THEN pc' = "raised" /\ env' = env
       ELSE /\ pc' = "exit_0"
            /\ env' = [env EXCEPT !.saved = Append(@, state.recipe[1])]
    /\ UNCHANGED <<state, uuid, visited, lastOp, retList, retBool>>

\* The generate command: a graph run and what the command does after it.
SpecCli == InitCli /\ [][Next \/ CliAborts \/ CliFinish]_vars

-----------------------------------------------------------------------------
(* Properties of a graph run.                                              *)

Request == state.request
Terminated == pc \in {"END", "aborted"}
SeasonRequested == Request.season # "" /\ Request.season # "auto"

\* The node the documented control flow runs after `node`, given the state
\* that node returned.
DocumentedNext(node, s) ==
    CASE node = "generate_recipe" ->
            IF s.request.anxiety_focus THEN "psychonutrition" ELSE "seasonal_check"
      [] node = "psychonutrition" ->
            IF /\ s.recipe # None
               /\ s.recipe[1].psychonutrition_analysis # None
               /\ s.recipe[1].psychonutrition_analysis[1].anxiety_score < 60
            THEN "recipe_improvement" ELSE "seasonal_check"
      [] node = "recipe_improvement" -> "seasonal_check"
      [] node = "seasonal_check" ->
            IF s.request.season \notin {"", "auto"} THEN "seasonal" ELSE "chef_review"
      [] node = "seasonal" -> "chef_review"
      [] node = "chef_review" -> "expert_summary"
      [] node = "expert_summary" -> "END"

\* The documented path of a finished run, given whether it improved.
DocumentedPath(improved) ==
    <<"generate_recipe">>
    \o (IF Request.anxiety_focus THEN <<"psychonutrition">> ELSE <<>>)
    \o (IF improved THEN <<"recipe_improvement">> ELSE <<>>)
    \o <<"seasonal_check">>
    \o (IF SeasonRequested THEN <<"seasonal">> ELSE <<>>)
    \o <<"chef_review", "expert_summary">>

Visited(node) == \E i \in DOMAIN visited : visited[i] = node

\* C1: when generate_recipe succeeds, every step runs the node the previous
\* step chose and chooses its successor as documented (psychonutrition iff
\* anxiety_focus, recipe_improvement iff an analysis scores strictly below
\* 6.0, seasonal iff a season other than "auto" is requested), so a finished
\* run visited the documented path; without anxiety_focus and with season
\* "winter" it is generate_recipe, seasonal_check, seasonal, chef_review,
\* expert_summary.
C1_VisitOrder ==
    /\ [][pc' # "aborted" =>
            /\ visited' = Append(visited, pc)
            /\ pc' = DocumentedNext(pc, state')]_vars
    /\ [](pc = "END" =>
            /\ visited = DocumentedPath(Visited("recipe_improvement"))
            /\ Visited("recipe_improvement") => Visited("psychonutrition")
            /\ (~Request.anxiety_focus /\ Request.season = "winter") =>
                  visited = <<"generate_recipe", "seasonal_check", "seasonal",
                              "chef_review", "expert_summary">>)

\* Witness of C1: psychonutrition stored a score of exactly 6.0 and the run
\* goes on with seasonal_check.
C1_Witness ==
    /\ visited = <<"generate_recipe", "psychonutrition">>
    /\ HasAnalysis(state)
    /\ AnxietyScore(state) = 60
    /\ pc = "seasonal_check"

\* C2: a run with anxiety_focus and season "auto" whose generation succeeded
\* ends with a recipe, a non-empty conversation log and phase "finalized".
C2_FinalizedAtEnd ==
    (pc = "END" /\ Request.anxiety_focus /\ Request.season = "auto") =>
        /\ state.recipe # None
        /\ state.conversation # <<>>
        /\ state.conversation_context.phase = "finalized"

Once(node) == Cardinality({i \in DOMAIN visited : visited[i] = node}) <= 1

\* C3: every run terminates, aborted by a failed generate_recipe or at END,
\* after at most 7 step executions, and no node is executed twice.
C3_Terminates ==
    /\ [](Len(visited) <= 7 /\ \A i \in DOMAIN visited : Once(visited[i]))
    /\ <>Terminated

\* Witness of C3: a run reached END through all seven nodes.
C3_Witness ==
    /\ pc = "END"
    /\ Len(visited) = 7

\* C4: a failed generation is fatal.  No other node has run or can run, there
\* is no recipe, and nothing was appended to the conversation log or to the
\* error list.
C4_GenerationFailureFatal ==
    pc = "aborted" =>
        /\ visited = <<"generate_recipe">>
        /\ state.recipe = None
        /\ state.conversation = <<>>
        /\ state.errors = <<>>
        /\ ~ENABLED Next

\* Witness of C4: generate_recipe raised.
C4_Witness ==
    /\ pc = "aborted"
    /\ visited = <<"generate_recipe">>

\* C5: a step other than generate_recipe in which an internal error is raised
\* returns the state it received with one message appended to the error
\* list and nothing else changed, and the run goes on to the next node.
C5_FailedStepChangesNothing ==
    [][(pc # "generate_recipe" /\ Len(state'.errors) > Len(state.errors)) =>
          /\ state' = [state EXCEPT !.errors = Append(@, Last(state'.errors))]
          /\ pc' = DocumentedNext(pc, state')]_vars

-----------------------------------------------------------------------------
(* Properties of the conversation log.                                     *)

Log == state.conversation
Ctx == state.conversation_context
Ids(log) == {log[i].id : i \in DOMAIN log}

\* C6: the conversation log is append-only.  Every step leaves the log it
\* found as a prefix of the log it leaves and gives every message it adds an
\* id that no earlier message of the log has; a call of add_message adds
\* exactly one message.
C6_LogAppendOnly ==
    [][/\ IsPrefix(Log, Log')
       /\ \A i \in (Len(Log) + 1)..Len(Log') :
             \A j \in 1..(i - 1) : Log'[j].id # Log'[i].id
       /\ lastOp'.op = "add_message" => Len(Log') = Len(Log) + 1]_vars

\* Witness of C6: add_message has been called on a log that already held
\* five messages.
C6_Witness ==
    /\ lastOp.op = "add_message"
    /\ Len(Log) = 6
    /\ Cardinality(Ids(Log)) = 6

\* The filter the documentation of get_conversation_for_expert states.
Relevant(msg, expert, include_general) ==
    \/ msg.to_expert = Some(expert)
    \/ msg.from_expert = expert
    \/ (include_general /\ msg.to_expert = None)

\* C7: get_conversation_for_expert returns exactly the messages addressed to
\* the expert, sent by the expert, or (when include_general) broadcast, in
\* log order and each once; without include_general a broadcast message is
\* returned only when the expert sent it.
C7_GetConversationExact ==
    lastOp.op = "get" =>
        /\ retList = SelectSeq(Log, LAMBDA m :
                        Relevant(m, lastOp.expert, lastOp.general))
        /\ ~lastOp.general =>
              \A i \in DOMAIN retList :
                  retList[i].to_expert = None =>
                      retList[i].from_expert = lastOp.expert

\* Witness of C7: a query without include_general on a log that holds a
\* broadcast of the expert, a broadcast of another expert and a message the
\* queried expert has no part in.
C7_Witness ==
    /\ lastOp.op = "get"
    /\ ~lastOp.general
    /\ \E i \in DOMAIN retList :
          retList[i].to_expert = None /\ retList[i].from_expert = lastOp.expert
    /\ \E i \in DOMAIN Log :
          Log[i].to_expert # None /\ ~Relevant(Log[i], lastOp.expert, FALSE)
    /\ Len(retList) >= 2
    /\ Len(retList) < Len(Log)

\* C8: get_conversation_for_expert is a pure query.  A call changes nothing
\* of the state (log, experts, context) and draws no id; a call repeated with
\* the same arguments returns the same list.
C8_GetConversationPure ==
    [][lastOp'.op = "get" =>
          /\ state' = state
          /\ uuid' = uuid
          /\ (lastOp.op = "get" /\ lastOp' = lastOp) => retList' = retList]_vars

\* Witness of C8: a query has returned part of a log of three messages.
C8_Witness ==
    /\ lastOp.op = "get"
    /\ Len(Log) = 3
    /\ retList # <<>>
    /\ Len(retList) < 3

\* The positions of the last five messages of a log.
Window(log) == {i \in DOMAIN log : i > Len(log) - 5}
Typed(log, idx, type) == Cardinality({i \in idx : log[i].message_type = type})

\* C9: check_consensus is true iff approvals strictly outnumber concerns
\* among the last five messages (all of them when there are fewer); a tie,
\* a window without approvals and an empty log give false.
C9_ConsensusWindow ==
    lastOp.op = "check" =>
        /\ retBool = (Typed(Log, Window(Log), "approval")
                        > Typed(Log, Window(Log), "concern"))
        /\ (Typed(Log, Window(Log), "approval") = 3
              /\ Typed(Log, Window(Log), "concern") = 1) => retBool
        /\ (Typed(Log, Window(Log), "approval")
              = Typed(Log, Window(Log), "concern")) => ~retBool
        /\ Log = <<>> => ~retBool

\* Witness of C9: on a six-message log whose last five messages hold two
\* approvals and one concern the result is true, although the message that
\* fell out of the window is a concern that ties the whole log.
C9_Witness ==
    /\ lastOp.op = "check"
    /\ Len(Log) = 6
    /\ Typed(Log, Window(Log), "approval") = 2
    /\ Typed(Log, Window(Log), "concern") = 1
    /\ Log[1].message_type = "concern"
    /\ retBool

\* What update_context is documented to do to a field given argument o.
Overwritten(old, o) == IF Truthy(o) THEN o[1] ELSE old
Appended(old, o) == IF Truthy(o) THEN Append(old, o[1]) ELSE old

\* C10: update_context changes only what it is given.  topic and phase are
\* overwritten only when provided, a provided decision or question is
\* appended, everything else of the state is left alone, and
\* consensus_reached becomes what check_consensus gives on the current log.
C10_UpdateContextFrame ==
    [][lastOp'.op = "update" =>
          /\ Ctx'.topic = Overwritten(Ctx.topic, lastOp'.topic)
          /\ Ctx'.phase = Overwritten(Ctx.phase, lastOp'.phase)
          /\ Ctx'.decisions_made = Appended(Ctx.decisions_made, lastOp'.decision)
          /\ Ctx'.pending_questions = Appended(Ctx.pending_questions, lastOp'.question)
          /\ IsPrefix(Ctx.decisions_made, Ctx'.decisions_made)
          /\ IsPrefix(Ctx.pending_questions, Ctx'.pending_questions)
          /\ Ctx'.consensus_reached =
                (Typed(Log, Window(Log), "approval")
                    > Typed(Log, Window(Log), "concern"))
          /\ state' = [state EXCEPT !.conversation_context = Ctx']
          /\ uuid' = uuid]_vars

\* Witness of C10: an update that was given only a decision appended it to a
\* non-empty list and reset consensus_reached, which an earlier update had
\* set on a log of one approval, to false.
C10_Witness ==
    /\ lastOp.op = "update"
    /\ lastOp.topic = None /\ lastOp.phase = None /\ lastOp.question = None
    /\ Len(Ctx.decisions_made) = 2
    /\ Ctx.topic = "Seasonal Optimization"
    /\ Len(Log) = 2
    /\ Log[1].message_type = "approval"
    /\ Log[2].message_type = "concern"
    /\ ~Ctx.consensus_reached

-----------------------------------------------------------------------------
(* Properties of the RecipeIterator.                                       *)

ConcernInWindow(log) == \E i \in Window(log) : log[i].message_type = "concern"

\* C11: should_iterate_recipe is true iff the state has a recipe with an
\* analysis and the score is below 6.0 or a concern is among the last five
\* messages; without such a concern it is true at 5.9 and false at 6.0, and
\* it is false without a recipe or an analysis whatever the log holds.
C11_ShouldIterate ==
    lastOp.op = "should_iterate" =>
        /\ retBool = /\ state.recipe # None
                     /\ state.recipe[1].psychonutrition_analysis # None
                     /\ \/ state.recipe[1].psychonutrition_analysis[1].anxiety_score < 60
                        \/ ConcernInWindow(Log)
        /\ (HasAnalysis(state) /\ ~ConcernInWindow(Log) /\ AnxietyScore(state) = 59)
              => retBool
        /\ (HasAnalysis(state) /\ ~ConcernInWindow(Log) /\ AnxietyScore(state) = 60)
              => ~retBool
        /\ ~HasAnalysis(state) => ~retBool

\* Witness of C11: at a score of exactly 6.0 the call returned false on a log
\* whose only concern is older than the last five messages.
C11_Witness ==
    /\ lastOp.op = "should_iterate"
    /\ HasAnalysis(state)
    /\ AnxietyScore(state) = 60
    /\ Len(Log) > 5
    /\ Log[1].message_type = "concern"
    /\ ~ConcernInWindow(Log)
    /\ ~retBool

\* The state needs iteration, as documented.
NeedsIteration(s) ==
    /\ s.recipe # None
    /\ s.recipe[1].psychonutrition_analysis # None
    /\ \/ s.recipe[1].psychonutrition_analysis[1].anxiety_score < 60
       \/ ConcernInWindow(s.conversation)

\* The positions of the last ten messages of a log.
Window10(log) == {i \in DOMAIN log : i > Len(log) - 10}
IterKeywords == {K_walnut, K_chia, K_spinach, K_kale, K_pumpkin_seed}
\* The keywords a message names alongside "add".
Matched(msg) ==
    IF ContentHas(msg.content, K_add)
    THEN {kw \in IterKeywords : ContentHas(msg.content, kw)} ELSE {}
NoKeywordMatch(log) == \A i \in Window10(log) : Matched(log[i]) = {}

Ingredients(s) == s.recipe[1].ingredients
ThreeDefaults ==
    <<Ingredient(S_chopped_walnuts, 25, "cup"),
      Ingredient(S_fresh_spinach, 200, "cups"),
      Ingredient(S_avocado, 100, "whole")>>

\* C12: improve_recipe on a state that needs iteration, at any score, and
\* whose last ten messages hold no keyword match appends exactly chopped
\* walnuts, fresh spinach and avocado, in that order, after the unchanged
\* prior entries.
C12_DefaultIngredients ==
    [][(lastOp'.op = "improve" /\ NeedsIteration(state) /\ NoKeywordMatch(Log)) =>
          Ingredients(state') = Ingredients(state) \o ThreeDefaults]_vars

\* The keywords matched in the last ten messages of a log.
AllMatched(log) == UNION {Matched(log[i]) : i \in Window10(log)}

\* The ingredient documented for each keyword.
FixedIngredient(kw) ==
    CASE kw = K_walnut -> Ingredient(S_chopped_walnuts, 25, "cup")
      [] kw = K_chia -> Ingredient(S_chia_seeds, 100, "tbsp")
      [] kw = K_spinach -> Ingredient(S_fresh_spinach, 200, "cups")
      [] kw = K_kale -> Ingredient(S_chopped_kale, 100, "cup")
      [] kw = K_pumpkin_seed -> Ingredient(S_pumpkin_seeds, 200, "tbsp")

\* The ingredients a step appended.
AppendedIngredients(s, t) ==
    {Ingredients(t)[i] : i \in (Len(Ingredients(s)) + 1)..Len(Ingredients(t))}

\* C13: improve_recipe appends, for every keyword matched alongside "add" in
\* one of the last ten messages, the ingredient fixed for that keyword,
\* whatever the number of keywords and messages that match; when a keyword
\* matches, nothing else is appended, so older messages contribute nothing.
C13_KeywordIngredients ==
    [][(lastOp'.op = "improve" /\ NeedsIteration(state)) =>
          /\ \A kw \in AllMatched(Log) :
                FixedIngredient(kw) \in AppendedIngredients(state, state')
          /\ AllMatched(Log) # {} =>
                AppendedIngredients(state, state')
                    = {FixedIngredient(kw) : kw \in AllMatched(Log)}]_vars

\* C14: when improve_recipe applies an improvement, the old ingredient list
\* is an unchanged prefix of the new one, the instructions become the fixed
\* eight steps whatever the recipe, the name and the description are
\* rewritten from the fixed templates, and exactly one message is appended
\* to the log, of type modification and from the psychonutritionist.
C14_ImproveFrame ==
    [][(lastOp'.op = "improve" /\ NeedsIteration(state)) =>
          /\ IsPrefix(Ingredients(state), Ingredients(state'))
          /\ Len(Ingredients(state')) > Len(Ingredients(state))
          /\ state'.recipe[1].instructions = EnhancedInstructions
          /\ Len(state'.recipe[1].instructions) = 8
          /\ state'.recipe[1].name =
                Text("Enhanced {} with Anxiety-Reducing Superfoods",
                     <<state.recipe[1].name>>)
          /\ state'.recipe[1].description =
                Text("{} Enhanced with proven anxiety-reducing nutrients",
                     <<state.recipe[1].description>>)
          /\ Len(Log') = Len(Log) + 1
          /\ IsPrefix(Log, Log')
          /\ Last(Log').message_type = "modification"
          /\ Last(Log').from_expert = "psychonutritionist"]_vars

\* Witness of C14: an improvement was applied to a recipe that already held
\* an avocado; the list now holds it twice.
C14_Witness ==
    /\ lastOp.op = "improve"
    /\ Log # <<>>
    /\ Last(Log).message_type = "modification"
    /\ Cardinality({i \in DOMAIN Ingredients(state) :
                       Ingredients(state)[i] = Ingredient(S_avocado, 100, "whole")}) = 2
    /\ state.recipe[1].instructions = EnhancedInstructions

Modifications(log) == {i \in DOMAIN log : log[i].message_type = "modification"}

\* C15: the improvement runs at most once per graph run.  The log never holds
\* more than one modification message, and the recipe's ingredient list is
\* extended only by the recipe_improvement step, which has not run before,
\* even when the score stays below 6.0 after the improvement.
C15_ImprovesOnce ==
    /\ [](Cardinality(Modifications(Log)) <= 1)
    /\ [][(state.recipe # None /\ Ingredients(state') # Ingredients(state)) =>
             /\ pc = "recipe_improvement"
             /\ ~Visited("recipe_improvement")
             /\ Modifications(Log) = {}
             /\ IsPrefix(Ingredients(state), Ingredients(state'))]_vars

\* Witness of C15: a run ended with one improvement made and a score that is
\* still below 6.0.
C15_Witness ==
    /\ pc = "END"
    /\ Visited("recipe_improvement")
    /\ Cardinality(Modifications(Log)) = 1
    /\ HasAnalysis(state)
    /\ AnxietyScore(state) < 60
    /\ Len(Ingredients(state)) > 1

-----------------------------------------------------------------------------
(* Properties of the scoring engine.  Scores are in tenths: 10 is 100.     *)

Scored == lastOp.op \in {"score_basic", "score_collaborative"}

\* C16: the score both scoring functions return lies in [0, 10] whatever the
\* numbers of ingredients, categories and combinations, and so does the
\* score of every analysis stored in the state.
C16_ScoreRange ==
    /\ Scored => (retList[1] >= 0 /\ retList[1] <= 100)
    /\ HasAnalysis(state) => (AnxietyScore(state) >= 0 /\ AnxietyScore(state) <= 100)

\* Witness of C16: eight categories with three matching ingredients each
\* would add up to 12 points; the collaborative score returned is 10.
C16_Witness ==
    /\ lastOp.op = "score_collaborative"
    /\ Len(env.nutrient_file.db.nutrients) >= 8
    /\ Len(state.recipe[1].ingredients) = 8
    /\ retList = <<100>>

\* The recipe ingredient names that contain one of a category's sources,
\* compared case-insensitively.
MatchingNames(category, recipe) ==
    {j \in DOMAIN recipe.ingredients :
        \E s \in DOMAIN category.sources :
            IsSubstring(Lower(category.sources[s]), Lower(recipe.ingredients[j].name))}

\* N: min(1.5, 0.5 x matches) for every category with a match.
CategoryTerm(recipe, db) ==
    Sum([i \in DOMAIN db.nutrients |->
           LET n == Cardinality(MatchingNames(db.nutrients[i], recipe))
           IN  IF n = 0 THEN 0 ELSE IF n >= 3 THEN 15 ELSE 5 * n])

\* C: 0.5 for every combination with at least two fragments found.
CombinationTerm(recipe, db) ==
    Sum([k \in DOMAIN db.food_combinations |->
           LET found == {f \in DOMAIN db.food_combinations[k] :
                           \E j \in DOMAIN recipe.ingredients :
                               IsSubstring(Lower(db.food_combinations[k][f]),
                                           Lower(recipe.ingredients[j].name))}
           IN  IF Cardinality(found) >= 2 THEN 5 ELSE 0])

\* P: 0.5 when a probiotic source is found in an ingredient name.
ProbioticTerm(recipe, db) ==
    IF \E i \in DOMAIN db.nutrients :
          /\ db.nutrients[i].key = "probiotics"
          /\ MatchingNames(db.nutrients[i], recipe) # {}
    THEN 5 ELSE 0

\* C17: the basic score is min(10, N + C + P), with N the capped category
\* contributions, C the combination bonuses and P the 0.5 probiotic bonus.
C17_BasicScoreFormula ==
    lastOp.op = "score_basic" =>
        LET total == CategoryTerm(state.recipe[1], env.nutrient_file.db)
                     + CombinationTerm(state.recipe[1], env.nutrient_file.db)
                     + ProbioticTerm(state.recipe[1], env.nutrient_file.db)
        IN  retList = <<IF total >= 100 THEN 100 ELSE total>>

\* Witness of C17: "Fresh Atlantic Salmon Fillet" scored against a category
\* with the source "salmon" and a category without a match: 0.5.
C17_Witness ==
    /\ lastOp.op = "score_basic"
    /\ state.recipe[1].ingredients = <<Ingredient(S_Fresh_Atlantic_Salmon_Fillet, 200, "g")>>
    /\ Len(env.nutrient_file.db.nutrients) = 2
    /\ env.nutrient_file.db.nutrients[1].key = "omega3"
    /\ env.nutrient_file.db.nutrients[2].key = "magnesium"
    /\ retList = <<5>>

-----------------------------------------------------------------------------
(* The recipe of a graph run.                                              *)

\* `new` is `old` mutated in place: the ingredients and the chef's tips are
\* only extended, and the name is the old name or a text built around it.
MutatedInPlace(old, new) ==
    /\ IsPrefix(old.ingredients, new.ingredients)
    /\ IsPrefix(old.chef_tips, new.chef_tips)
    /\ \/ new.name = old.name
       \/ new.name.args = <<old.name>>
    /\ \/ new.description = old.description
       \/ new.description.args = <<old.description>>

\* C18: state.recipe is set once, by generate_recipe; from then on it is
\* non-null in every state, and every later step leaves it alone or mutates
\* it in place: it is never replaced by another recipe or reset to null.
C18_OneRecipe ==
    /\ []((pc # "generate_recipe" /\ pc # "aborted") => state.recipe # None)
    /\ [](Once("generate_recipe"))
    /\ [][/\ (state.recipe = None /\ state'.recipe # None) =>
                (pc = "generate_recipe" /\ visited = <<>>)
          /\ state.recipe # None =>
                /\ pc # "generate_recipe"
                /\ state'.recipe # None
                /\ MutatedInPlace(state.recipe[1], state'.recipe[1])]_vars

\* Witness of C18: a run ended after the improvement and the chef's review
\* both changed the recipe that generate_recipe set.
C18_Witness ==
    /\ pc = "END"
    /\ Visited("recipe_improvement")
    /\ Visited("chef_review")
    /\ state.recipe # None
    /\ state.recipe[1].name.args # <<>>
    /\ Len(state.recipe[1].ingredients) > 1
    /\ Len(state.recipe[1].chef_tips) > 3

-----------------------------------------------------------------------------
(* Properties of find_substitutions.                                       *)

SeasonalDb == env.seasonal_file.data
Season == state.request.season
Entries(c) ==
    IF SubstitutionCategories[c] \in DOMAIN SeasonalDb.seasonal_ingredients
    THEN SeasonalDb.seasonal_ingredients[SubstitutionCategories[c]] ELSE <<>>

\* The triples (category, ingredient, entry) that call for a substitution.
Triples ==
    {t \in UNION {{c} \X (DOMAIN state.recipe[1].ingredients) \X (DOMAIN Entries(c)) :
                     c \in 1..4} :
        LET entry == Entries(t[1])[t[3]]
            name == Lower(state.recipe[1].ingredients[t[2]].name)
        IN  /\ IsSubstring(entry.key, name) \/ IsSubstring(name, entry.key)
            /\ ~\E k \in DOMAIN entry.peak_season : entry.peak_season[k] = Season
            /\ Season \in DOMAIN entry.substitutes}

\* The order of emission: by category, then ingredient, then entry.
Before(t, u) ==
    \/ t[1] < u[1]
    \/ t[1] = u[1] /\ t[2] < u[2]
    \/ t[1] = u[1] /\ t[2] = u[2] /\ t[3] <= u[3]
Position(t) == Cardinality({u \in Triples : Before(u, t)})

\* C19: find_substitutions returns one substitution per triple of a category,
\* an ingredient and an entry of the category whose key contains or is
\* contained in the lowercased name, whose peak_season excludes the season
\* and that registers a substitute for it, in the order of the categories;
\* each carries the original name, the substitute, the reason and the
\* quantity and unit; nothing else is returned, and nothing is deduplicated.
C19_Substitutions ==
    lastOp.op = "find_substitutions" =>
        /\ Len(retList) = Cardinality(Triples)
        /\ \A t \in Triples :
              LET ingredient == state.recipe[1].ingredients[t[2]]
                  entry == Entries(t[1])[t[3]]
              IN  retList[Position(t)] =
                    [original |-> ingredient.name,
                     substitute |-> entry.substitutes[Season].ingredient,
                     reason |-> entry.substitutes[Season].reason,
                     adjustment |-> Text("Use same quantity: {} {}",
                                         <<ingredient.quantity, ingredient.unit>>)]

\* Witness of C19: in winter two tomatoes each match the vegetable entries
\* "tomato" and "cherry tomato" and the fruit entry "tomato": six
\* substitutions, the same original substituted in two categories.
C19_Witness ==
    /\ lastOp.op = "find_substitutions"
    /\ Season = "winter"
    /\ Len(state.recipe[1].ingredients) = 2
    /\ Len(retList) = 6
    /\ retList[1].substitute = "canned tomatoes"
    /\ retList[2].substitute = "sun-dried tomatoes"
    /\ retList[5].substitute = "persimmon"
    /\ retList[5].original = S_Tomato

-----------------------------------------------------------------------------
(* Properties of the Database.                                             *)

\* C20: get_recipe on the id save_recipe returned succeeds and returns a
\* recipe equal to the one saved, whether or not the recipe has nutrition
\* facts or an analysis.
C20_RoundTrip ==
    [][pc = "saved" => (lastOp'.op = "get_saved" /\ retList' = state.recipe)]_vars

-----------------------------------------------------------------------------
(* The experts of a graph run.                                             *)

ThreeExperts == {"psychonutritionist", "seasonal_expert", "chef"}

\* C21: the experts map is empty or has exactly the keys psychonutritionist,
\* seasonal_expert and chef; no message of the log is from or to the
\* nutritionist, and once the experts are initialized the sender and the
\* recipient of every message have a profile.
C21_Experts ==
    /\ DOMAIN state.experts \in {{}, ThreeExperts}
    /\ "nutritionist" \notin DOMAIN state.experts
    /\ \A i \in DOMAIN Log :
          /\ Log[i].from_expert # "nutritionist"
          /\ Log[i].to_expert # Some("nutritionist")
          /\ DOMAIN state.experts # {} =>
                /\ Log[i].from_expert \in DOMAIN state.experts
                /\ Log[i].to_expert # None => Log[i].to_expert[1] \in DOMAIN state.experts

\* Witness of C21: a run ended with the experts initialized and a message
\* addressed to the chef in the log.
C21_Witness ==
    /\ pc = "END"
    /\ DOMAIN state.experts = ThreeExperts
    /\ \E i \in DOMAIN Log : Log[i].to_expert = Some("chef")
    /\ \E i \in DOMAIN Log : Log[i].from_expert = "seasonal_expert"

-----------------------------------------------------------------------------
(* Missing knowledge bases.                                                *)

NutrientsMissing == env.nutrient_file.status = "missing"
SeasonalMissing == env.seasonal_file.status = "missing"

\* C22: with a missing nutrient knowledge base every analysis pass stores
\* the score 0 and no key nutrient; with a missing seasonal knowledge base
\* find_substitutions returns nothing and the seasonal step sets no
\* variation; these steps append no error and the run goes on to the next
\* node.
C22_SilentDegradation ==
    [][/\ (pc = "psychonutrition" /\ NutrientsMissing) =>
             /\ state'.errors = state.errors
             /\ HasAnalysis(state')
             /\ AnxietyScore(state') = 0
             /\ state'.recipe[1].psychonutrition_analysis[1].key_nutrients = <<>>
             /\ pc' = "recipe_improvement"
       /\ (pc = "recipe_improvement" /\ NutrientsMissing) =>
             /\ state'.errors = state.errors
             /\ HasAnalysis(state') => AnxietyScore(state') = 0
             /\ pc' = "seasonal_check"
       /\ (pc = "seasonal" /\ SeasonalMissing) =>
             /\ state'.errors = state.errors
             /\ state'.seasonal_variation = None
             /\ pc' = "chef_review"
       /\ (pc = "substitutions" /\ SeasonalMissing) =>
             /\ retList' = <<>>
             /\ state' = state]_vars

\* Witness of C22: a run ended without an error although both knowledge
\* bases are missing and both the analysis and the seasonal step ran.
C22_Witness ==
    /\ pc = "END"
    /\ NutrientsMissing
    /\ SeasonalMissing
    /\ Visited("psychonutrition")
    /\ Visited("seasonal")
    /\ state.errors = <<>>
    /\ HasAnalysis(state)
    /\ AnxietyScore(state) = 0
    /\ state.seasonal_variation = None

-----------------------------------------------------------------------------
(* The conversation phase of a graph run.                                  *)

Phases == <<"planning", "analysis", "refinement", "optimization", "finalized">>
PhaseRank(phase) == CHOOSE i \in DOMAIN Phases : Phases[i] = phase

\* C23: the phase only takes the values planning, analysis, refinement,
\* optimization, finalized, and no step moves it from a later phase of this
\* list to an earlier one.
C23_PhaseProgression ==
    /\ [](\E i \in DOMAIN Phases : Phases[i] = Ctx.phase)
    /\ [][PhaseRank(Ctx.phase) <= PhaseRank(Ctx.phase')]_vars

-----------------------------------------------------------------------------
(* The generate command.                                                   *)

\* C24: when the workflow raises or ends without a recipe, the command
\* exits with code 1 and save_recipe is not called; otherwise save_recipe
\* is called exactly once, after END, with the final recipe.
C24_SaveAfterSuccess ==
    /\ [](Len(env.saved) <= 1)
    /\ [](pc = "exit_1" => env.saved = <<>>)
    /\ [][/\ env.saved' # env.saved => pc = "END" /\ state.recipe # None
          /\ pc = "aborted" => pc' = "exit_1"
          /\ (pc = "END" /\ state.recipe = None) => pc' = "exit_1"
          /\ (pc = "END" /\ state.recipe # None) =>
                (pc' = "exit_0" /\ env.saved' = <<state.recipe[1]>>)]_vars

-----------------------------------------------------------------------------
(* expert_summary without an analysis.                                     *)

\* What the expert_summary step does when it fails: one more error, the
\* log, the phase ("refinement") and consensus_reached untouched, and END.
SummaryFailsQuietly ==
    /\ Len(state'.errors) = Len(state.errors) + 1
    /\ IsPrefix(state.errors, state'.errors)
    /\ Log' = Log
    /\ Ctx.phase = "refinement"
    /\ Ctx' = Ctx
    /\ pc' = "END"

PsychonutritionFailed ==
    \E i \in DOMAIN state.errors : state.errors[i] = "Psychonutrition analysis error"

-----------------------------------------------------------------------------
(* The recommendations of the basic analysis.                              *)

StoredAnalysis == state.recipe[1].psychonutrition_analysis[1]

\* No ingredient name, lowercased, is exactly chicken, turkey, salmon, eggs
\* or tofu.
NoGoodProtein ==
    \A i \in DOMAIN Ingredients(state) :
        Lower(Ingredients(state)[i].name) \notin
            {<<"c", "h", "i", "c", "k", "e", "n">>, <<"t", "u", "r", "k", "e", "y">>,
             <<"s", "a", "l", "m", "o", "n">>, <<"e", "g", "g", "s">>,
             <<"t", "o", "f", "u">>}

\* C26: the recommendations of the basic analysis contain the advice to add
\* a tryptophan-rich protein source exactly when no ingredient is one of
\* the five proteins, whatever the score.
C26_TryptophanAdvice ==
    lastOp.op = "analyze_basic" =>
        (NoGoodProtein <=>
            \E k \in DOMAIN StoredAnalysis.recommendations :
                StoredAnalysis.recommendations[k] = "Add a protein source rich in tryptophan")

-----------------------------------------------------------------------------
(* The lists of a stored analysis.                                         *)

\* The database categories with a source in some ingredient name, those of
\* them that carry a mechanism, and those that carry a recommendation.
MatchedCategories ==
    {i \in DOMAIN env.nutrient_file.db.nutrients :
        MatchingNames(env.nutrient_file.db.nutrients[i], state.recipe[1]) # {}}
MatchedWithMechanism ==
    {i \in MatchedCategories : env.nutrient_file.db.nutrients[i].mechanism # None}
MatchedWithRecommendation ==
    {i \in MatchedCategories : env.nutrient_file.db.nutrients[i].recommendation # None}

\* The first entries of a set of categories in database order, at most
\* limit of them.
Leading(S, limit) ==
    [k \in 1..(IF Cardinality(S) < limit THEN Cardinality(S) ELSE limit) |->
        CHOOSE i \in S : Cardinality({j \in S : j <= i}) = k]

-----------------------------------------------------------------------------
(* The two scoring call sites.                                             *)

\* How a collaborative score c compares with the basic score b of the same
\* recipe and database.
ScoresAgree(b, c) ==
    /\ c >= b
    /\ c - b \in {0, 5}
    /\ (ProbioticTerm(state.recipe[1], env.nutrient_file.db) = 0 \/ b = 100) => c = b

\* C28: on the same recipe and database the collaborative score is at least
\* the basic score, exceeds it by 0 or 0.5, and equals it when no probiotic
\* source matches an ingredient or the basic score is already 10.
C28_ProbioticDifference ==
    /\ lastOp.op = "score_basic" =>
          ScoresAgree(retList[1],
                      CalculateAnxietyScore(state.recipe[1], env.nutrient_file.db))
    /\ lastOp.op = "score_collaborative" =>
          ScoresAgree(CalculateAnxietyScoreBasic(state.recipe[1], env.nutrient_file.db),
                      retList[1])

\* Witness of C28: with yogurt in the recipe and a probiotics category in
\* the database, the collaborative score returned is 0.5 above the basic
\* score, below the cap.
C28_Witness ==
    /\ lastOp.op = "score_collaborative"
    /\ ProbioticTerm(state.recipe[1], env.nutrient_file.db) = 5
    /\ retList[1] < 100
    /\ retList[1] =
          CalculateAnxietyScoreBasic(state.recipe[1], env.nutrient_file.db) + 5

-----------------------------------------------------------------------------
(* The analysis after an improvement.                                      *)

\* recipe_improvement has just run, added its ingredients and renamed the
\* recipe.
ImprovementApplied ==
    /\ visited # <<>>
    /\ visited[Len(visited)] = "recipe_improvement"
    /\ state.recipe[1].name.tpl = "Enhanced {} with Anxiety-Reducing Superfoods"

\* No analysis of the run has failed.
AnalysisSucceeded ==
    \A k \in DOMAIN state.errors : state.errors[k] # "Psychonutrition analysis error"

\* The collaborative analysis of the recipe as it is now, from the database
\* alone.
FreshAnalysis ==
    LET db == env.nutrient_file.db
        total == CategoryTerm(state.recipe[1], db) + CombinationTerm(state.recipe[1], db)
                 + 2 * ProbioticTerm(state.recipe[1], db)
    IN [anxiety_score |-> IF total >= 100 THEN 100 ELSE total,
        key_nutrients |->
            [k \in DOMAIN Leading(MatchedCategories, 5) |->
                db.nutrients[Leading(MatchedCategories, 5)[k]].name],
        mechanisms |->
            [k \in DOMAIN Leading(MatchedWithMechanism, 3) |->
                db.nutrients[Leading(MatchedWithMechanism, 3)[k]].mechanism[1]],
        recommendations |->
            [k \in DOMAIN Leading(MatchedWithRecommendation, 3) |->
                db.nutrients[Leading(MatchedWithRecommendation, 3)[k]].recommendation[1]]]

\* C29: after recipe_improvement applied an improvement and its re-analysis
\* succeeded, the recipe's analysis is the analysis of the augmented
\* ingredient list computed from scratch.
C29_AnalysisRecomputed ==
    (ImprovementApplied /\ AnalysisSucceeded) =>
        /\ HasAnalysis(state)
        /\ StoredAnalysis = FreshAnalysis

\* Witness of C29: the salmon bowl, analysed at 4.5 before the improvement,
\* carries the analysis of its six ingredients after it: 6.0.
C29_Witness ==
    /\ ImprovementApplied
    /\ AnalysisSucceeded
    /\ Len(state.recipe[1].ingredients) = 6
    /\ StoredAnalysis.anxiety_score = 60

-----------------------------------------------------------------------------
(* The score across an improvement.                                        *)

\* The recipe cut down to its first n ingredients.
FirstIngredients(n) ==
    [state.recipe[1] EXCEPT !.ingredients = SubSeq(@, 1, n)]

\* C30: the collaborative score of a recipe is at least the score of every
\* recipe it extends by appended ingredients, and recipe_improvement never
\* leaves a lower score on the recipe than the one it found there.
C30_NeverLowers ==
    /\ [](lastOp.op = "score_collaborative" =>
            \A n \in 0..Len(state.recipe[1].ingredients) :
                CalculateAnxietyScore(FirstIngredients(n), env.nutrient_file.db)
                    <= retList[1])
    /\ [][(pc = "recipe_improvement" /\ HasAnalysis(state)) =>
              (HasAnalysis(state') /\ AnxietyScore(state') >= AnxietyScore(state))]_vars

\* Witness of C30: an improvement has raised the score of a recipe and left
\* it below 6.0.
C30_Witness ==
    /\ ImprovementApplied
    /\ AnalysisSucceeded
    /\ StoredAnalysis.anxiety_score > 0
    /\ StoredAnalysis.anxiety_score < TargetAnxietyScore

-----------------------------------------------------------------------------
(* The improvement step of a graph run.                                    *)

\* The messages a step has appended to the log.
AppendedMessages == SubSeq(state'.conversation, Len(state.conversation) + 1,
                   Len(state'.conversation))

\* The log after the step extends the log before it.
LogExtended ==
    /\ Len(state'.conversation) >= Len(state.conversation)
    /\ SubSeq(state'.conversation, 1, Len(state.conversation)) = state.conversation

\* C31: the graph enters recipe_improvement only with a recipe for which
\* should_iterate_recipe holds; when the step logs no error it appends at
\* least one ingredient and exactly four messages from the
\* psychonutritionist: a modification, a concern or an approval, a question
\* to seasonal_expert and a final_decision.
C31_ImprovementStep ==
    [][pc = "recipe_improvement" =>
          /\ HasAnalysis(state)
          /\ AnxietyScore(state) < TargetAnxietyScore
          /\ state'.errors = state.errors =>
                /\ IsPrefix(state.recipe[1].ingredients, state'.recipe[1].ingredients)
                /\ Len(state'.recipe[1].ingredients) > Len(state.recipe[1].ingredients)
                /\ LogExtended
                /\ Len(AppendedMessages) = 4
                /\ \A k \in 1..4 : AppendedMessages[k].from_expert = "psychonutritionist"
                /\ AppendedMessages[1].message_type = "modification"
                /\ AppendedMessages[2].message_type \in {"concern", "approval"}
                /\ AppendedMessages[3].message_type = "question"
                /\ AppendedMessages[3].to_expert = Some("seasonal_expert")
                /\ AppendedMessages[4].message_type = "final_decision"]_vars

\* Witness of C31: recipe_improvement has run without an error and the log
\* holds the two messages of the first analysis and the four of the step,
\* the second of them an approval.
C31_Witness ==
    /\ ImprovementApplied
    /\ state.errors = <<>>
    /\ Len(state.conversation) = 6
    /\ state.conversation[4].message_type = "approval"

-----------------------------------------------------------------------------
(* The psychonutrition step of a graph run.                                *)

\* C32: a psychonutrition step that logs no error appends two messages from
\* the psychonutritionist, a broadcast that is a concern when the new score
\* is below 5.0 and an approval otherwise, then a question to
\* seasonal_expert; with a score from 5.0 up to 6.0 the log holds an
\* approval and no concern and the graph goes on to recipe_improvement.
C32_PsychonutritionStep ==
    [][(pc = "psychonutrition" /\ state'.errors = state.errors) =>
          /\ HasAnalysis(state')
          /\ LogExtended
          /\ Len(AppendedMessages) = 2
          /\ \A k \in 1..2 : AppendedMessages[k].from_expert = "psychonutritionist"
          /\ AppendedMessages[1].to_expert = None
          /\ AppendedMessages[1].message_type =
                (IF AnxietyScore(state') < 50 THEN "concern" ELSE "approval")
          /\ AppendedMessages[2].message_type = "question"
          /\ AppendedMessages[2].to_expert = Some("seasonal_expert")
          /\ (AnxietyScore(state') >= 50 /\ AnxietyScore(state') < 60) =>
                /\ pc' = "recipe_improvement"
                /\ \E k \in DOMAIN state'.conversation :
                      state'.conversation[k].message_type = "approval"
                /\ \A k \in DOMAIN state'.conversation :
                      state'.conversation[k].message_type # "concern"]_vars

\* Witness of C32: the first analysis gave 5.0, its broadcast is an approval
\* and the run stands before recipe_improvement.
C32_Witness ==
    /\ pc = "recipe_improvement"
    /\ state.errors = <<>>
    /\ AnxietyScore(state) = 50
    /\ Len(state.conversation) = 2
    /\ state.conversation[1].message_type = "approval"

-----------------------------------------------------------------------------
(* The finalized run.                                                      *)

\* The run has ended with phase "finalized".
Finalized == pc = "END" /\ Ctx.phase = "finalized"

\* consensus_reached is true and approvals outnumber concerns among the
\* last five messages of the final log.
ConsensusStands ==
    /\ Ctx.consensus_reached
    /\ Typed(Log, Window(Log), "approval") > Typed(Log, Window(Log), "concern")

\* The log ends with the chef's approval and the three final decisions.
EndsWithApprovalAndDecisions ==
    /\ Len(Log) >= 4
    /\ \A k \in 0..2 : Log[Len(Log) - k].message_type = "final_decision"
    /\ Log[Len(Log) - 3].from_expert = "chef"
    /\ Log[Len(Log) - 3].message_type = "approval"

-----------------------------------------------------------------------------
(* References between messages.                                            *)

\* The positions of the messages that refer to another message.
Referring == {k \in DOMAIN Log : Log[k].reference_to # None}

\* The positions before k of the questions addressed to the chef.
QuestionsForChefBefore(k) ==
    {j \in 1..(k - 1) : Log[j].to_expert = Some("chef") /\ Log[j].message_type = "question"}

\* C34: a message that refers to another one refers to an earlier message
\* of the same log; only the chef's opinion does, it refers to the latest
\* question addressed to the chef, and the run has visited the seasonal
\* step.
C34_References ==
    /\ Cardinality(Referring) <= 1
    /\ \A k \in Referring :
          /\ Log[k].from_expert = "chef"
          /\ Log[k].message_type = "opinion"
          /\ QuestionsForChefBefore(k) # {}
          /\ \E j \in QuestionsForChefBefore(k) :
                /\ \A i \in QuestionsForChefBefore(k) : i <= j
                /\ Log[k].reference_to = Some(Log[j].id)
          /\ Visited("seasonal")

\* Witness of C34: the chef's opinion is in the log, after the seasonal
\* expert's question.
C34_Witness ==
    /\ Referring # {}
    /\ \A k \in Referring : Log[k - 1].from_expert = "seasonal_expert"

-----------------------------------------------------------------------------
(* The ingredients the improvement step appends.                           *)

\* The names of the ingredients a step has appended to the recipe.
AppendedNames ==
    [i \in 1..(Len(Ingredients(state')) - Len(Ingredients(state))) |->
        Ingredients(state')[Len(Ingredients(state)) + i].name]

\* What the score found by recipe_improvement is said to determine.
NamesForScore ==
    IF AnxietyScore(state) < 50
    THEN <<S_chopped_walnuts, S_chia_seeds, S_pumpkin_seeds>>
    ELSE <<S_chopped_walnuts, S_fresh_spinach, S_avocado>>

-----------------------------------------------------------------------------
(* improve_recipe called directly.                                         *)

\* should_iterate_recipe is false: no recipe, no analysis, or a score of at
\* least 6.0 with no concern among the last five messages.
NothingToImprove ==
    \/ ~HasRecipe(state)
    \/ ~HasAnalysis(state)
    \/ /\ AnxietyScore(state) >= TargetAnxietyScore
       /\ Typed(Log, Window(Log), "concern") = 0

\* C36: improve_recipe returns a state unchanged when should_iterate_recipe
\* is false for it, and on every call on a state whose score is below 6.0,
\* a repeated call included, it appends ingredients and one modification
\* message.
C36_SelfGating ==
    [][lastOp'.op = "improve" =>
          /\ NothingToImprove => state' = state
          /\ (HasAnalysis(state) /\ AnxietyScore(state) < TargetAnxietyScore) =>
                /\ IsPrefix(Ingredients(state), Ingredients(state'))
                /\ Len(Ingredients(state')) > Len(Ingredients(state))
                /\ LogExtended
                /\ Len(AppendedMessages) = 1
                /\ AppendedMessages[1].message_type = "modification"]_vars

\* Witness of C36: a second call has appended a second modification message
\* to the log of a recipe that scores below 6.0.
C36_Witness ==
    /\ lastOp.op = "improve"
    /\ HasAnalysis(state)
    /\ AnxietyScore(state) < TargetAnxietyScore
    /\ Typed(Log, DOMAIN Log, "modification") = 2

-----------------------------------------------------------------------------
(* The chef's enhancement.                                                 *)

\* How often a tip occurs in a list of tips.
Occurrences(tips, tip) == Cardinality({i \in DOMAIN tips : tips[i] = tip})

\* C37: after chef_review of a present recipe every one of the five canned
\* tips is in chef_tips, a tip is not added when it was there, the tips the
\* recipe had are kept as a prefix, the difficulty is "medium", and a
\* second enhancement leaves the recipe as it is.
C37_ChefEnhancement ==
    [][(pc = "chef_review" /\ HasRecipe(state)) =>
          LET old == state.recipe[1].chef_tips
              new == state'.recipe[1].chef_tips
          IN /\ \A k \in DOMAIN ChefTips :
                   /\ Occurrences(new, ChefTips[k]) >= 1
                   /\ Occurrences(old, ChefTips[k]) >= 1 =>
                         Occurrences(new, ChefTips[k]) = Occurrences(old, ChefTips[k])
                   /\ Occurrences(old, ChefTips[k]) = 0 =>
                         Occurrences(new, ChefTips[k]) = 1
             /\ IsPrefix(old, new)
             /\ state'.recipe[1].difficulty = "medium"
             /\ EnhanceRecipeWithChefInsights(World(state', uuid')).s.recipe
                   = state'.recipe]_vars

\* Witness of C37: a recipe generated as "hard" with two tips, one of them
\* canned, is "medium" after chef_review and carries six tips.
C37_Witness ==
    /\ Visited("chef_review")
    /\ HasRecipe(state)
    /\ state.recipe[1].chef_tips[1] = "Rest the fish before serving"
    /\ Len(state.recipe[1].chef_tips) = 6
    /\ state.recipe[1].difficulty = "medium"

====
